---- MODULE Spec2Model ----
(***************************************************************************)
(* Gesture pipeline of the boxing game: the landmark smoother              *)
(* (_smooth_landmarks), the punch detector (PunchDetector), the guard and  *)
(* dodge resolver (_compute_hand_state) and the worker thread              *)
(* (run_cv_thread) of src/cv/punch_detector.py, and the part of the        *)
(* control loop of src/main.py that talks to the worker: the event queue,  *)
(* the pose cell and the stop flag; the opponent of src/game/opponent.py   *)
(* with the calls main makes on it; and the game loop of src/main.py with  *)
(* the player of src/game/player.py, tick by tick.                         *)
(*                                                                         *)
(* Numbers.  The program computes with Python floats; the model computes   *)
(* with exact rationals.  A coordinate is an integer count of 1/10000 of   *)
(* the normalised frame, a timestamp an integer count of milliseconds, and *)
(* every quotient the program forms (a velocity, a strength, the EMA       *)
(* factor) is a fraction [num, den] in lowest terms.  The inputs are       *)
(* chosen so that every square root and every division the program takes   *)
(* is exact on them (ExactGeometry and ExactSmoothing state it), hence     *)
(* nothing is rounded.                                                     *)
(***************************************************************************)
EXTENDS Integers, Sequences, FiniteSets, TLC

VARIABLES
    history,        \* PunchDetector._history: hand id -> window of <<t, size, z>>
    last_punch,     \* PunchDetector._last_punch: hand id -> timestamp (a dict)
    event_queue,    \* the queue.Queue the detector puts events on
    hands_data,     \* argument of the process_hands call in progress
    pending,        \* observations of hands_data the for loop has not reached yet
    now,            \* timestamp argument of the process_hands call in progress
    frames,         \* number of process_hands calls so far
    emit_log,       \* history variable: <<hand id, timestamp>> of every put
    last_call,      \* history variable: the last _update_and_detect call
    prev_smoothed,  \* run_cv_thread's smoothing state: hand id -> landmarks
    raw_hands,      \* argument hands_data of the last _smooth_landmarks call
    smoothed_hands, \* result list of the last _smooth_landmarks call
    run_of,         \* history variable: per hand id, what it was fed since its entry was created
    smooth_calls,   \* number of _smooth_landmarks calls so far
    worker_pc,      \* where run_cv_thread stands
    stop_event,     \* the threading.Event main sets to stop the worker
    hand_state_ref, \* hand_state_ref[0], the pose cell
    preview_ref,    \* preview_ref[0], the preview cell
    next_frame_time,\* run_cv_thread's next_frame_time, a fraction of milliseconds
    reads,          \* number of camera.read calls so far
    raised,         \* the exception that left process_hands or run_cv_thread, if any
    pose_log,       \* history variable: every write of the pose cell, with its argument and frame time
    ctl_pc,         \* where the while loop of main stands
    consumed,       \* the events main has taken off the queue, in order
    running,        \* main's running
    cv_error,       \* main's cv_error
    hs,             \* main's hs, the pose state it read last
    classified,     \* the last _is_fist call on its own: its argument and what it returned
    opponent,       \* the Opponent object of main: its attributes, timers in milliseconds
    opp_call,       \* history variable: the last call on the opponent and what it returned
    player,         \* the Player object of main: its attributes, timers in milliseconds
    game,           \* main's locals that live across ticks: game_state, the round's counters and timers
    game_pc,        \* where the tick of main's game loop stands
    tick,           \* main's locals that a tick binds before it reads them: dt, cv_block, block_key_held
    since_block     \* history variable: milliseconds of Player.update since the last blocked attack

detector_vars == <<history, last_punch, event_queue, hands_data, pending, now,
                   frames, emit_log, last_call>>
smoother_vars == <<prev_smoothed, raw_hands, smoothed_hands, run_of, smooth_calls>>
worker_vars == <<worker_pc, stop_event, hand_state_ref, preview_ref, next_frame_time,
                 reads, raised, pose_log>>
control_vars == <<ctl_pc, consumed, running, cv_error, hs>>
loop_vars == <<player, game, game_pc, tick, since_block>>
game_vars == <<opponent, opp_call, loop_vars>>
vars == <<detector_vars, smoother_vars, worker_vars, control_vars, classified, game_vars>>

-----------------------------------------------------------------------------
(* Arithmetic *)

Abs(x) == IF x < 0 THEN -x ELSE x

\* Euclid's algorithm, as a function so that its arguments are values.
GCDOf[a \in Nat, b \in Nat] == IF b = 0 THEN a ELSE GCDOf[b, a % b]
GCD(a, b) == GCDOf[a, b]

\* The rational n/d (d # 0) in lowest terms with a positive denominator.
Frac(n, d) ==
    LET g == GCD(Abs(n), Abs(d))
        s == IF d < 0 THEN -1 ELSE 1
    IN  [num |-> (s * n) \div g, den |-> (s * d) \div g]

FracLess(a, b) == a.num * b.den < b.num * a.den

SetMax(S) == CHOOSE x \in S : \A y \in S : y <= x
SetMin(S) == CHOOSE x \in S : \A y \in S : x <= y

\* math.sqrt on an integer: the largest r with r*r <= n (exact on squares),
\* by bisection; a function so that its arguments are values.
SqrtIn[n \in Nat, lo \in Nat, hi \in Nat] ==
    IF lo >= hi THEN lo
    ELSE LET mid == (lo + hi + 1) \div 2
         IN  IF mid * mid <= n THEN SqrtIn[n, mid, hi]
                               ELSE SqrtIn[n, lo, mid - 1]
SqrtBetween(n, lo, hi) == SqrtIn[n, lo, hi]

Sqrt(n) == SqrtBetween(n, 0, IF n < 46340 THEN n ELSE 46340)

\* Units of the fixed-point representation: coordinate units per 1.0 of the
\* normalised frame and timestamp units per second.
Unit == [coord |-> 10000, time |-> 1000]

-----------------------------------------------------------------------------
(* Landmark indices (MediaPipe Hands); Python indexes from 0 *)

WRIST == 0
INDEX_TIP == 8
INDEX_PIP == 6
MIDDLE_TIP == 12
MIDDLE_PIP == 10
RING_TIP == 16
RING_PIP == 14
PINKY_TIP == 20
PINKY_PIP == 18
THUMB_TIP == 4
THUMB_MCP == 2

At(seq, i) == seq[i + 1]
InRange(seq, i) == i < Len(seq)

\* str.lower() on the labels the tracker produces.
Lower(s) ==
    CASE s = "Left" -> "left"
      [] s = "Right" -> "right"
      [] OTHER -> s

HandIds == {"left", "right"}

-----------------------------------------------------------------------------
(* Hand observations the tracker can hand over (HandTracker.process):      *)
(* 21 landmarks <<x, y, z>> and a handedness label.  A pose is a hand      *)
(* drawn on a 3 x 4 lattice of cell width k with its corner at <<ox, oy>>  *)
(* and every landmark at depth z: the wrist at the bottom, the thumb up    *)
(* the left edge, the four fingers in four columns.  In the fist the       *)
(* fingertips lie on the knuckles; in the open hand they reach the top.    *)

LatticeX == <<1, 0, 0, 0, 0,  0, 0, 0, 0,  1, 1, 1, 1,  2, 2, 2, 2,  3, 3, 3, 3>>
FistY    == <<4, 4, 3, 1, 0,  3, 2, 3, 3,  3, 2, 3, 3,  3, 2, 3, 3,  3, 2, 3, 3>>
OpenY    == <<4, 4, 3, 1, 0,  3, 2, 1, 0,  3, 2, 1, 0,  3, 2, 1, 0,  3, 2, 1, 0>>

Pose(ox, oy, k, z, shapeY) ==
    [i \in 1..21 |-> <<ox + k * LatticeX[i], oy + k * shapeY[i], z>>]

Obs(label, lms) == [landmarks |-> lms, handedness |-> label]

\* Poses fed to the detector (coordinates in 1/10000).  Bounding-box
\* diagonals: 0.1000, 0.1070, 0.2500, 0.1150 and 0.2500.
FistA   == Pose(4000, 3000, 200, 0, FistY)
FistB   == Pose(4000, 3000, 214, 0, FistY)
FistBig == Pose(4000, 3000, 500, 0, FistY)
FistNear == Pose(4000, 3000, 230, -700, FistY)
OpenBig == Pose(4000, 3000, 500, 0, OpenY)

LeftPoses == {FistA, FistB, FistBig, FistNear, OpenBig}
BothPoses == {FistA, FistBig}

\* Lists process_hands is called with: no hand, a left hand, a left and a
\* right hand, and two hands the tracker gave the same label (max_num_hands = 2
\* and the labels are classified per hand, so both may read "Left").
DetectorInputs ==
    {<<>>}
    \cup {<<Obs("Left", p)>> : p \in LeftPoses}
    \cup {<<Obs("Left", p), Obs("Right", p)>> : p \in BothPoses}
    \cup {<<Obs("Left", p), Obs("Left", FistBig)>> : p \in BothPoses}

\* Milliseconds between two processed frames (the worker's clock is
\* monotonic and it processes at most one frame per 1/45 s).
FrameGaps == {100, 200}

-----------------------------------------------------------------------------
(* Rational arithmetic on fractions in lowest terms *)

One == Frac(1, 1)
FracAbs(a) == Frac(Abs(a.num), a.den)
FracTimes(a, n) == Frac(a.num * n, a.den)
FracDiv(a, b) == Frac(a.num * b.den, a.den * b.num)
\* Python's min(a, b): b when b < a, else a.
FracMin(a, b) == IF FracLess(b, a) THEN b ELSE a

-----------------------------------------------------------------------------
(* Pose classifier: _is_fist, _hand_size, _avg_z *)

FistIndices == {THUMB_TIP, THUMB_MCP, INDEX_TIP, INDEX_PIP, MIDDLE_TIP, MIDDLE_PIP,
                RING_TIP, RING_PIP, PINKY_TIP, PINKY_PIP, WRIST}

\* Squared planar distance between two landmarks.
Dist2(a, b) == (a[1] - b[1]) * (a[1] - b[1]) + (a[2] - b[2]) * (a[2] - b[2])

\* Mutation of the fist test: no minimum span.
SpanTooSmall_Never(span2) == FALSE

\* hand_span < 0.05, with hand_span the square root of span2 (both sides >= 0).
SpanTooSmall(span2) ==
    LET limit == (5 * Unit.coord) \div 100 IN span2 < limit * limit

\* Mutations of the curl test: a strict comparison; a factor of 2.
tip_closer_than_pip_Strict(tip, pip, wrist) == 10 * Dist2(tip, wrist) < 13 * Dist2(pip, wrist)
tip_closer_than_pip_Loose(tip, pip, wrist) == Dist2(tip, wrist) <= 2 * Dist2(pip, wrist)

\* d_tip <= d_pip * 1.3 on the squared distances to the wrist.
tip_closer_than_pip(tip, pip, wrist) == 10 * Dist2(tip, wrist) <= 13 * Dist2(pip, wrist)

\* An index beyond the list raises IndexError, which the function turns into False.
IsFist(landmarks) ==
    IF \E i \in FistIndices : ~InRange(landmarks, i) THEN FALSE
    ELSE LET wrist == At(landmarks, WRIST)
         IN  IF SpanTooSmall(Dist2(At(landmarks, THUMB_TIP), At(landmarks, PINKY_TIP)))
             THEN FALSE
             ELSE /\ tip_closer_than_pip(At(landmarks, INDEX_TIP), At(landmarks, INDEX_PIP), wrist)
                  /\ tip_closer_than_pip(At(landmarks, MIDDLE_TIP), At(landmarks, MIDDLE_PIP), wrist)
                  /\ tip_closer_than_pip(At(landmarks, RING_TIP), At(landmarks, RING_PIP), wrist)
                  /\ tip_closer_than_pip(At(landmarks, PINKY_TIP), At(landmarks, PINKY_PIP), wrist)

\* Square of the bounding-box diagonal of the landmarks' (x, y).
BoxDiag2(landmarks) ==
    LET xs == {landmarks[i][1] : i \in DOMAIN landmarks}
        ys == {landmarks[i][2] : i \in DOMAIN landmarks}
        dx == SetMax(xs) - SetMin(xs)
        dy == SetMax(ys) - SetMin(ys)
    IN  dx * dx + dy * dy

HandSize(landmarks) == Sqrt(BoxDiag2(landmarks))

\* max() and min() of an empty list raise ValueError.
HandSizeRaises(landmarks) == landmarks = <<>>

RECURSIVE SumZ(_)
SumZ(landmarks) ==
    IF landmarks = <<>> THEN 0 ELSE Head(landmarks)[3] + SumZ(Tail(landmarks))

AvgZ(landmarks) == SumZ(landmarks) \div Len(landmarks)

-----------------------------------------------------------------------------
(* PunchDetector as run_cv_thread constructs it *)

velocity_threshold == Frac(7, 100)
cooldown_ms == 200
history_frames == 5

cooldown_sec == (cooldown_ms * Unit.time) \div 1000
DepthThreshold == Frac(-35, 100)
\* self._last_punch.get(hid, -10): ten seconds before time zero.
NeverPunched == (-10) * Unit.time

HandId(handedness) == Lower(handedness)

\* Mutations of DequeAppend: a deque without maxlen; appendleft.
DequeAppend_Unbounded(h, sample) == Append(h, sample)
DequeAppend_Left(h, sample) ==
    IF Len(h) < history_frames THEN <<sample>> \o h
    ELSE <<sample>> \o SubSeq(h, 1, Len(h) - 1)

\* Further mutations: a sample that shares its timestamp with the newest one
\* is not recorded; a window that starts afresh after a gap of more than
\* 100 ms.
DequeAppend_OnePerInstant(h, sample) ==
    IF h # <<>> /\ h[Len(h)][1] = sample[1] THEN h
    ELSE IF Len(h) < history_frames THEN Append(h, sample)
    ELSE Append(Tail(h), sample)
DequeAppend_Restart(h, sample) ==
    IF h # <<>> /\ sample[1] - h[Len(h)][1] > 100 THEN <<sample>>
    ELSE IF Len(h) < history_frames THEN Append(h, sample)
    ELSE Append(Tail(h), sample)

\* collections.deque(maxlen = history_frames).append
DequeAppend(h, sample) ==
    IF Len(h) < history_frames THEN Append(h, sample)
    ELSE Append(Tail(h), sample)

\* Mutations of the last-punch table: one cooldown shared by both hands; an
\* entry that is written once and then kept.
LastPunchGet_Any(lp, hid) ==
    IF DOMAIN lp = {} THEN (-10) * Unit.time
    ELSE CHOOSE x \in {lp[k] : k \in DOMAIN lp} : \A k \in DOMAIN lp : lp[k] <= x
LastPunchSet_Once(lp, hid, t) ==
    [k \in DOMAIN lp \cup {hid} |-> IF k \in DOMAIN lp THEN lp[k] ELSE t]

\* self._last_punch.get(hid, -10)
LastPunchGet(lp, hid) == IF hid \in DOMAIN lp THEN lp[hid] ELSE NeverPunched
\* self._last_punch[hid] = t
LastPunchSet(lp, hid, t) ==
    [k \in DOMAIN lp \cup {hid} |-> IF k = hid THEN t ELSE lp[k]]

\* Mutations of the gates: no fist gate; no cooldown; a cooldown that also
\* covers the instant it ends; a threshold that is not strict.
NotFist_Never(landmarks) == FALSE
InCooldown_Never(t, last) == FALSE
InCooldown_Inclusive(t, last) == t - last <= cooldown_sec
toward_camera_NotStrict(sv, zv) ==
    ~FracLess(sv, velocity_threshold) \/ FracLess(zv, DepthThreshold)
\* Mutation of the strength: the signed velocity instead of its magnitude.
Strength_Signed(sv) == FracMin(One, FracDiv(sv, FracTimes(velocity_threshold, 2)))

\* Mutation of the size velocity: the difference of the two most recent
\* samples (of the sample with itself when there is only one).
size_velocity_Recent(h) ==
    LET p == IF Len(h) > 1 THEN Len(h) - 1 ELSE 1
    IN  Frac((h[Len(h)][2] - h[p][2]) * Unit.time,
             (IF h[Len(h)][1] - h[p][1] = 0 THEN 1 ELSE h[Len(h)][1] - h[p][1]) * Unit.coord)

\* The gates of _update_and_detect after the append, in the order of the code.
NotFist(landmarks) == ~IsFist(landmarks)
InCooldown(t, last) == t - last < cooldown_sec
TooFewSamples(h) == Len(h) < 2
\* Mutation of the time span: a span of zero is taken as one millisecond.
WindowSpan_Clamped(h) == IF h[Len(h)][1] - h[1][1] = 0 THEN 1 ELSE h[Len(h)][1] - h[1][1]
WindowSpan(h) == h[Len(h)][1] - h[1][1]
size_velocity(h) == Frac((h[Len(h)][2] - h[1][2]) * Unit.time, WindowSpan(h) * Unit.coord)
z_velocity(h) == Frac((h[Len(h)][3] - h[1][3]) * Unit.time, WindowSpan(h) * Unit.coord)
toward_camera(sv, zv) == FracLess(velocity_threshold, sv) \/ FracLess(zv, DepthThreshold)
Strength(sv) == FracMin(One, FracDiv(FracAbs(sv), FracTimes(velocity_threshold, 2)))

\* Whether the call with these landmarks at time t, on the window h that
\* already holds this frame's sample, puts an event.
Punches(landmarks, t, h, last) ==
    /\ ~NotFist(landmarks)
    /\ ~InCooldown(t, last)
    /\ ~TooFewSamples(h)
    /\ WindowSpan(h) > 0
    /\ toward_camera(size_velocity(h), z_velocity(h))

PunchEvent(hid, h) == [type |-> "punch", hand |-> hid, strength |-> Strength(size_velocity(h))]

-----------------------------------------------------------------------------
(* Landmark smoother: _smooth_landmarks *)

LANDMARK_SMOOTH_ALPHA == Frac(35, 100)

\* Mutations of the EMA: the factor 1 - alpha forgotten; the factors swapped.
Ema_SameFactor(raw, prev) ==
    (LANDMARK_SMOOTH_ALPHA.num * raw + LANDMARK_SMOOTH_ALPHA.num * prev)
        \div LANDMARK_SMOOTH_ALPHA.den
Ema_Swapped(raw, prev) ==
    ((LANDMARK_SMOOTH_ALPHA.den - LANDMARK_SMOOTH_ALPHA.num) * raw
        + LANDMARK_SMOOTH_ALPHA.num * prev) \div LANDMARK_SMOOTH_ALPHA.den

\* ALPHA * x + (1 - ALPHA) * px, for one coordinate.
Ema(raw, prev) ==
    (LANDMARK_SMOOTH_ALPHA.num * raw
        + (LANDMARK_SMOOTH_ALPHA.den - LANDMARK_SMOOTH_ALPHA.num) * prev)
        \div LANDMARK_SMOOTH_ALPHA.den

\* prev = prev_smoothed.get(handedness) is used when it is truthy: the label
\* has an entry and the entry is not the empty list.
HasPrev(prev_map, hid) == hid \in DOMAIN prev_map /\ prev_map[hid] # <<>>

\* The inner loop: landmark i is filtered when prev reaches index i.
SmoothOne(landmarks, prev_map, hid) ==
    [i \in DOMAIN landmarks |->
        IF HasPrev(prev_map, hid) /\ InRange(prev_map[hid], i - 1)
        THEN <<Ema(landmarks[i][1], prev_map[hid][i][1]),
               Ema(landmarks[i][2], prev_map[hid][i][2]),
               Ema(landmarks[i][3], prev_map[hid][i][3])>>
        ELSE <<landmarks[i][1], landmarks[i][2], landmarks[i][3]>>]

SmoothResult(hd, prev_map) ==
    [i \in DOMAIN hd |->
        [landmarks |-> SmoothOne(hd[i].landmarks, prev_map, Lower(hd[i].handedness)),
         handedness |-> hd[i].handedness]]

Seen(hd) == {Lower(hd[i].handedness) : i \in DOMAIN hd}

\* new_prev[handedness] = smoothed, in list order: the last observation of a
\* label is the one that stays.
NewPrev(hd, result) ==
    IF hd = <<>> THEN <<>>
    ELSE [k \in Seen(hd) |->
            result[SetMax({i \in DOMAIN hd : Lower(hd[i].handedness) = k})].landmarks]

\* Mutation of the returned state: entries of labels not seen are kept.
SmoothLandmarks_NoPurge(hd, prev_map) ==
    LET result == SmoothResult(hd, prev_map)
        fresh == NewPrev(hd, result)
    IN  [result |-> result,
         prev |-> IF Seen(hd) \cup DOMAIN prev_map = {} THEN <<>>
                  ELSE [k \in Seen(hd) \cup DOMAIN prev_map |->
                           IF k \in Seen(hd) THEN fresh[k] ELSE prev_map[k]]]

\* (smoothed_hands_data, updated_prev)
SmoothLandmarks(hd, prev_map) ==
    LET result == SmoothResult(hd, prev_map)
    IN  [result |-> result, prev |-> NewPrev(hd, result)]

-----------------------------------------------------------------------------
(* Guard and dodge resolver: _compute_hand_state *)

\* Python's None in a field that otherwise holds a string.
None == "None"
\* A wrist of the state dict that holds None; a wrist that is set holds <<x, y>>.
NoWrist == <<>>

BLOCK_Y_THRESHOLD == (50 * Unit.coord) \div 100
BLOCK_MAX_WRIST_DISTANCE == (40 * Unit.coord) \div 100
\* The literals 0.35 and 0.65 of the dodge comparisons.
DodgeLeftBelow == Frac(35 * Unit.coord, 100)
DodgeRightAbove == Frac(65 * Unit.coord, 100)

\* Mutations of the resolver: a guard distance that is not strict; dodge
\* thresholds that are not strict; a right threshold of 0.60.
guard_pose_NotStrict(left, right) == Abs(left[1] - right[1]) <= BLOCK_MAX_WRIST_DISTANCE
Dodge_NotStrict(x) ==
    IF ~FracLess(DodgeLeftBelow, x) THEN "left"
    ELSE IF ~FracLess(x, DodgeRightAbove) THEN "right"
    ELSE None
Dodge_Lopsided(x) ==
    IF FracLess(x, DodgeLeftBelow) THEN "left"
    ELSE IF FracLess(Frac(60 * Unit.coord, 100), x) THEN "right"
    ELSE None

\* key = "left_wrist" if handedness == "left" else "right_wrist"
WristKey(handedness) == IF Lower(handedness) = "left" THEN "left_wrist" ELSE "right_wrist"

\* state[key] after the loop: the wrist of the last observation with that key.
WristOf(hd, key) ==
    LET idx == {i \in DOMAIN hd : WristKey(hd[i].handedness) = key}
    IN  IF idx = {} THEN NoWrist
        ELSE LET wrist == At(hd[SetMax(idx)].landmarks, WRIST)
             IN  <<wrist[1], wrist[2]>>

both_high(left, right) == left[2] < BLOCK_Y_THRESHOLD /\ right[2] < BLOCK_Y_THRESHOLD
guard_pose(left, right) == Abs(left[1] - right[1]) < BLOCK_MAX_WRIST_DISTANCE

\* "left" if x < 0.35 else ("right" if x > 0.65 else None), x a fraction.
Dodge(x) ==
    IF FracLess(x, DodgeLeftBelow) THEN "left"
    ELSE IF FracLess(DodgeRightAbove, x) THEN "right"
    ELSE None

\* Mutation of the resolver: a guard that stays up once the cell holds it.
ComputeHandState_Sticky(hd) ==
    LET left == WristOf(hd, "left_wrist")
        right == WristOf(hd, "right_wrist")
    IN  [left_wrist |-> left, right_wrist |-> right,
         blocking |-> hand_state_ref.blocking
                      \/ (left # NoWrist /\ right # NoWrist
                          /\ both_high(left, right) /\ guard_pose(left, right)),
         dodging |-> IF left # NoWrist /\ right # NoWrist
                     THEN Dodge(Frac(left[1] + right[1], 2))
                     ELSE IF left # NoWrist THEN Dodge(Frac(left[1], 1))
                     ELSE IF right # NoWrist THEN Dodge(Frac(right[1], 1))
                     ELSE None]

ComputeHandState(hd) ==
    LET left == WristOf(hd, "left_wrist")
        right == WristOf(hd, "right_wrist")
    IN  IF left # NoWrist /\ right # NoWrist
        THEN [left_wrist |-> left, right_wrist |-> right,
              blocking |-> both_high(left, right) /\ guard_pose(left, right),
              dodging |-> Dodge(Frac(left[1] + right[1], 2))]
        ELSE [left_wrist |-> left, right_wrist |-> right,
              blocking |-> FALSE,
              dodging |-> IF left # NoWrist THEN Dodge(Frac(left[1], 1))
                          ELSE IF right # NoWrist THEN Dodge(Frac(right[1], 1))
                          ELSE None]

\* Frames the resolver is exercised on: a fist with its wrist at <<x, y>>,
\* for x around the dodge thresholds and the guard distance and y around the
\* guard height; no hand, one hand, two hands under every pair of labels.
HandAt(x, y) == Pose(x - 100, y - 400, 100, 0, FistY)
WristXs == {2500, 3400, 3500, 3600, 4500, 5000, 5500, 6400, 6500, 6600, 7500}
WristYs == {3000, 4999, 5000}
Labels == {"Left", "Right"}
PoseInputs ==
    {<<>>}
    \cup {<<Obs(a, HandAt(x, y))>> : a \in Labels, x \in WristXs, y \in WristYs}
    \cup {<<Obs(a, HandAt(x1, y1)), Obs(b, HandAt(x2, y2))>> :
            a \in Labels, b \in Labels,
            x1 \in WristXs, y1 \in WristYs, x2 \in WristXs, y2 \in WristYs}

-----------------------------------------------------------------------------
(* Bounds *)

\* process_hands calls explored.
MaxFrames == 3

\* camera.read calls of the worker explored.
MaxReads == 3

\* _smooth_landmarks calls explored.
MaxSmoothCalls == 4

-----------------------------------------------------------------------------
(* State after construction *)

NoCall == [valid |-> FALSE, handedness |-> "", landmarks |-> <<>>, t |-> 0,
           last |-> 0, full |-> FALSE, emitted |-> FALSE]

NoRun == [n |-> 0, same |-> TRUE, lm |-> <<>>, purged |-> 0, gone |-> <<>>]

\* main: hand_state_ref = [{"blocking": False, "dodging": None}], preview_ref = [None]
InitialHandState == [blocking |-> FALSE, dodging |-> None]
NoPreview == [none |-> TRUE]
\* main's hs before the first tick has bound it.
Unbound == [unbound |-> TRUE]

NotClassified == [called |-> FALSE]

\* game/constants.py, and the hit animation's length when its GIF cannot be
\* read (_load_hit_anim_duration's except branch), in milliseconds.
OPPONENT_MAX_HP == 6
TELEGRAPH_DURATION == (4 * Unit.time) \div 10
VULNERABLE_DURATION == Unit.time
AttackDuration == (15 * Unit.time) \div 100
HitAnimFallback == (6 * Unit.time) \div 10

\* Opponent.__init__
NewOpponent ==
    [hp |-> OPPONENT_MAX_HP, max_hp |-> OPPONENT_MAX_HP, state |-> "idle",
     state_timer |-> 0, attack_side |-> None, combo_index |-> 0, round |-> 1,
     hit_timer |-> 0, invuln_timer |-> 0, hit_anim_duration |-> HitAnimFallback]

\* since: milliseconds of update calls since the last hit that landed,
\* counted up to the hit animation's length (and that length before any hit).
NoOppCall == [op |-> "none", took |-> FALSE, attack |-> <<>>, since |-> HitAnimFallback]

\* game/constants.py and Player.__init__, in milliseconds.
PLAYER_MAX_HP == 12
ROUNDS_TOTAL == 3
ROUND_DURATION == 90 * Unit.time
BLOCK_SUSTAIN_SEC == (12 * Unit.time) \div 100
BLOCK_COOLDOWN_AFTER_HIT == (7 * Unit.time) \div 10
InvincibilityDuration == (5 * Unit.time) \div 10
CountdownStart == 3 * Unit.time

\* The names main imports from game.states.
GameStates == {"TITLE", "CALIBRATION", "FIGHTING", "ROUND_END", "GAME_OVER", "VICTORY"}

\* Player.__init__
NewPlayer ==
    [hp |-> PLAYER_MAX_HP, max_hp |-> PLAYER_MAX_HP, dodging |-> None, blocking |-> FALSE,
     invincibility_timer |-> 0, invincibility_duration |-> InvincibilityDuration,
     block_cooldown_timer |-> 0]

\* main's locals before the loop (lines 64-73).  round_end_player_won is
\* <<>> for None and <<b>> for a boolean b.
NewGame ==
    [game_state |-> "TITLE", current_round |-> 1, round_timer |-> 0,
     round_end_player_won |-> <<>>, player_round_wins |-> 0,
     countdown_timer |-> CountdownStart, block_sustain_timer |-> 0]

\* dt is bound at line 79, cv_block and block_key_held at lines 146-147 of a
\* FIGHTING tick, each before the tick reads it: between ticks, and for the
\* block inputs until they are bound, the locals hold nothing a tick reads.
NoTick == [dt |-> 0, bound |-> FALSE, cv_block |-> FALSE, block_key_held |-> FALSE]

\* Everything but the frame in hand.
InitRest ==
    /\ history = [hid \in HandIds |-> <<>>]
    /\ last_punch = <<>>
    /\ event_queue = <<>>
    /\ pending = <<>>
    /\ now = 0
    /\ frames = 0
    /\ emit_log = <<>>
    /\ last_call = NoCall
    /\ prev_smoothed = <<>>
    /\ raw_hands = <<>>
    /\ smoothed_hands = <<>>
    /\ run_of = [hid \in HandIds |-> NoRun]
    /\ smooth_calls = 0
    /\ worker_pc = "start"
    /\ stop_event = FALSE
    /\ hand_state_ref = InitialHandState
    /\ preview_ref = NoPreview
    /\ next_frame_time = Frac(0, 1)
    /\ reads = 0
    /\ raised = None
    /\ pose_log = <<>>
    /\ ctl_pc = "events"
    /\ consumed = <<>>
    /\ running = TRUE
    /\ cv_error = None
    /\ hs = Unbound
    /\ classified = NotClassified
    /\ opponent = NewOpponent
    /\ opp_call = NoOppCall
    /\ player = NewPlayer
    /\ game = NewGame
    /\ game_pc = "events"
    /\ tick = NoTick
    /\ since_block = <<>>

Init == hands_data = <<>> /\ InitRest

-----------------------------------------------------------------------------
(* PunchDetector.process_hands: the call, then one _update_and_detect per  *)
(* observation in list order.                                              *)

\* A call with a list of inputs, gaps milliseconds after the previous one.
\* No exception of an earlier call is caught, so none is followed by a call.
ProcessHandsFrom(inputs, gaps) ==
    /\ pending = <<>>
    /\ frames < MaxFrames
    /\ raised = None
    /\ \E hd \in inputs, gap \in gaps :
         /\ hands_data' = hd
         /\ pending' = hd
         /\ now' = now + gap
    /\ frames' = frames + 1
    /\ UNCHANGED <<history, last_punch, event_queue, emit_log, last_call>>
    /\ UNCHANGED <<smoother_vars, worker_vars, control_vars>>
    /\ UNCHANGED <<classified, game_vars>>

ProcessHands == ProcessHandsFrom(DetectorInputs, FrameGaps)

UpdateAndDetect ==
    /\ pending # <<>>
    /\ LET handedness == Head(pending).handedness
           landmarks == Head(pending).landmarks
           t == now
           hid == HandId(handedness)
           last == LastPunchGet(last_punch, hid)
       IN  IF HandSizeRaises(landmarks)
           THEN \* the exception leaves _update_and_detect, the for loop of
                \* process_hands and, uncaught, run_cv_thread
                /\ raised' = "ValueError"
                /\ pending' = <<>>
                /\ worker_pc' = IF worker_pc = "detect" THEN "dead" ELSE worker_pc
                /\ last_call' = [valid |-> TRUE, handedness |-> handedness,
                                 landmarks |-> landmarks, t |-> t, last |-> last,
                                 full |-> Len(history[hid]) = history_frames,
                                 emitted |-> FALSE]
                /\ UNCHANGED <<history, last_punch, event_queue, emit_log>>
           ELSE \* the window with this call's sample and the verdict, as values
                \E h \in {DequeAppend(history[hid], <<t, HandSize(landmarks), AvgZ(landmarks)>>)} :
                \E punch \in {Punches(landmarks, t, h, last)} :
                /\ history' = [history EXCEPT ![hid] = h]
                /\ IF punch
                   THEN /\ last_punch' = LastPunchSet(last_punch, hid, t)
                        /\ event_queue' = Append(event_queue, PunchEvent(hid, h))
                        /\ emit_log' = Append(emit_log, <<hid, t>>)
                   ELSE UNCHANGED <<last_punch, event_queue, emit_log>>
                /\ last_call' = [valid |-> TRUE, handedness |-> handedness,
                                 landmarks |-> landmarks, t |-> t, last |-> last,
                                 full |-> Len(history[hid]) = history_frames,
                                 emitted |-> punch]
                /\ pending' = Tail(pending)
                /\ UNCHANGED <<raised, worker_pc>>
    /\ UNCHANGED <<hands_data, now, frames>>
    /\ UNCHANGED <<stop_event, hand_state_ref, preview_ref, next_frame_time, reads, pose_log>>
    /\ UNCHANGED <<smoother_vars, control_vars>>
    /\ UNCHANGED <<classified, game_vars>>

Next == ProcessHands \/ UpdateAndDetect

\* Every square root and every mean the detector takes is exact on its inputs.
ExactGeometry ==
    \A hd \in DetectorInputs : \A i \in DOMAIN hd :
        /\ HandSize(hd[i].landmarks) * HandSize(hd[i].landmarks) = BoxDiag2(hd[i].landmarks)
        /\ SumZ(hd[i].landmarks) % Len(hd[i].landmarks) = 0

Spec == Init /\ [][Next]_vars

-----------------------------------------------------------------------------
(* The detector on lists a caller can build but the tracker does not: hands *)
(* with too few, too many or no landmarks, next to hands too small for the *)
(* fist test.                                                              *)

\* A fist-shaped hand whose thumb-to-pinky span is 0.0424, close to the camera.
TinyNear == Pose(4000, 3000, 100, -700, FistY)
\* 18 landmarks (the pinky's PIP and tip are beyond the list), 22 landmarks
\* (the wrist once more) and none.
ShortBig == SubSeq(FistBig, 1, 18)
LongBig == Append(FistBig, At(FistBig, WRIST))
NoLandmarks == <<>>

RobustInputs ==
    {<<>>}
    \cup {<<Obs("Left", p)>> : p \in {FistA, FistBig, TinyNear, ShortBig, LongBig, NoLandmarks}}
    \cup {<<Obs("Left", FistA), Obs("Left", FistBig)>>}
    \cup {<<Obs("Left", p), Obs("Right", FistBig)>> : p \in {ShortBig, NoLandmarks}}

RobustGaps == {100}

ProcessHandsAny == ProcessHandsFrom(RobustInputs, RobustGaps)

RobustNext == ProcessHandsAny \/ UpdateAndDetect

RobustSpec == Init /\ [][RobustNext]_vars

\* The square roots and means are exact on these lists as well.
ExactRobustGeometry ==
    \A hd \in RobustInputs : \A i \in DOMAIN hd :
        hd[i].landmarks # <<>> =>
            /\ HandSize(hd[i].landmarks) * HandSize(hd[i].landmarks) = BoxDiag2(hd[i].landmarks)
            /\ SumZ(hd[i].landmarks) % Len(hd[i].landmarks) = 0

-----------------------------------------------------------------------------
(* The smoother as run_cv_thread drives it: each processed frame passes the *)
(* tracker's list and the state the previous call returned.                *)

RECURSIVE Power(_, _)
Power(b, n) == IF n = 0 THEN 1 ELSE b * Power(b, n - 1)

\* Raw coordinates are multiples of this cell, so that MaxSmoothCalls
\* successive filterings divide exactly.
Cell == Power(LANDMARK_SMOOTH_ALPHA.den, MaxSmoothCalls - 1)

HandP == Pose(4 * Cell, 3 * Cell, Cell, 0, FistY)
HandQ == Pose(2 * Cell, Cell, 2 * Cell, -Cell, OpenY)
\* A list of three landmarks only.
HandShort == SubSeq(Pose(0, 2 * Cell, 3 * Cell, Cell, OpenY), 1, 3)

SmootherInputs ==
    {<<>>}
    \cup {<<Obs("Left", p)>> : p \in {HandP, HandQ, HandShort}}
    \cup {<<Obs("Right", p)>> : p \in {HandP, HandQ}}
    \cup {<<Obs("Left", HandP), Obs("Right", HandQ)>>}
    \cup {<<Obs("Left", HandP), Obs("Left", HandQ)>>}

\* What a label has been fed since its entry was created: the number of
\* consecutive frames, whether every observation carried the same landmarks
\* lm, how often the entry was dropped and the entry dropped last.
RunAfter(run, hid, hd, prev_map) ==
    LET fed == {hd[i].landmarks : i \in {j \in DOMAIN hd : Lower(hd[j].handedness) = hid}}
        first == hd[SetMin({j \in DOMAIN hd : Lower(hd[j].handedness) = hid})].landmarks
    IN  IF fed = {}
        THEN [n |-> 0, same |-> TRUE, lm |-> <<>>,
              purged |-> IF hid \in DOMAIN prev_map THEN run.purged + 1 ELSE run.purged,
              gone |-> IF hid \in DOMAIN prev_map THEN prev_map[hid] ELSE run.gone]
        ELSE IF run.n = 0
             THEN [run EXCEPT !.n = 1, !.same = (fed = {first}), !.lm = first]
             ELSE [run EXCEPT !.n = run.n + 1, !.same = (run.same /\ fed = {run.lm})]

SmoothFrame ==
    /\ smooth_calls < MaxSmoothCalls
    /\ \E hd \in SmootherInputs :
         LET r == SmoothLandmarks(hd, prev_smoothed)
         IN  /\ raw_hands' = hd
             /\ smoothed_hands' = r.result
             /\ prev_smoothed' = r.prev
             /\ run_of' = [hid \in HandIds |-> RunAfter(run_of[hid], hid, hd, prev_smoothed)]
    /\ smooth_calls' = smooth_calls + 1
    /\ UNCHANGED <<detector_vars, worker_vars, control_vars>>
    /\ UNCHANGED <<classified, game_vars>>

SmoothNext == SmoothFrame

SmoothSpec == Init /\ [][SmoothNext]_vars

\* Every division of the filter is exact on the inputs above.
ExactSmoothing ==
    \A hid \in DOMAIN prev_smoothed : \A i \in DOMAIN prev_smoothed[hid] :
        \A c \in 1..3 :
            prev_smoothed[hid][i][c] % Power(LANDMARK_SMOOTH_ALPHA.den, MaxSmoothCalls - smooth_calls) = 0

-----------------------------------------------------------------------------
(* The worker thread, run_cv_thread, and the control loop of main.  A step  *)
(* of either is one access to what they share (the event queue, the pose   *)
(* cell, the preview cell, the stop flag) together with the thread's own   *)
(* work around it.  worker_pc: "start" (opening the camera), "tracker"     *)
(* (entering the with block), "loop" (at the while test), "frame" (a frame *)
(* is due), "detect" (inside process_hands and up to the end of the        *)
(* iteration), "release" (after the with block), and, once the thread has  *)
(* ended, "no_camera" (return at line 250 or 253), "done" (the function's  *)
(* end) or "dead" (an exception nothing caught).  ctl_pc: "events" (top of *)
(* a tick), "drain", "pose", "exit" (the while loop is left), "join",      *)
(* "quit".                                                                 *)

FracPlus(a, b) == Frac(a.num * b.den + b.num * a.den, a.den * b.den)

\* 1.0 / 45 seconds, in milliseconds.
frame_interval == Frac(Unit.time, 45)

ErrorEvent(message) == [type |-> "error", message |-> message]

\* Mutations: a worker that does not look at the flag; a cell written field
\* by field, the dodge left stale; a queue that hands out its newest entry.
StopRequested_Never(flag) == FALSE
\* Mutation of the throttle: every frame read is processed.
FrameDue_Always(t, next) == TRUE
StoreCell_Torn(cell, state) == [state EXCEPT !.dodging = cell.dodging]
GetNowait_Newest(q) == [ev |-> q[Len(q)], rest |-> SubSeq(q, 1, Len(q) - 1)]

\* stop_event.is_set()
StopRequested(flag) == flag
\* now >= next_frame_time
FrameDue(t, next) == ~FracLess(Frac(t, 1), next)
\* hand_state_ref[0] = state: the slot is rebound to the new dict.
StoreCell(cell, state) == state
\* event_queue.get_nowait() on a queue that is not empty.
GetNowait(q) == [ev |-> Head(q), rest |-> Tail(q)]

\* Frames the tracker hands the worker: at these corners a big and a small
\* fist per label.  Whenever a label is seen, its last observation is the big
\* fist, so the smoothing state of a label only ever holds the big fist and
\* every filtering of the small fist against it is exact (k = 395).
LeftBig == Pose(2500, 1000, 500, 0, FistY)
LeftSmall == Pose(2500, 1000, 200, 0, FistY)
RightBig == Pose(5500, 1000, 500, 0, FistY)
RightSmall == Pose(5500, 1000, 200, 0, FistY)

WorkerInputs ==
    {<<>>,
     <<Obs("Left", LeftSmall), Obs("Left", LeftBig)>>,
     <<Obs("Right", RightSmall), Obs("Right", RightBig)>>,
     <<Obs("Left", LeftBig), Obs("Right", RightBig)>>}

\* Milliseconds from one reading of the clock (line 269) to the next: a
\* sleep of 5 ms and a camera read.
WorkerGaps == {10, 30}

\* Lines 247-253: Camera(...) and camera.open().
WorkerOpen ==
    /\ worker_pc = "start"
    /\ \E outcome \in {"opened", "Could not open webcam", "exception"} :
         IF outcome = "opened"
         THEN worker_pc' = "tracker" /\ UNCHANGED event_queue
         ELSE /\ event_queue' = Append(event_queue, ErrorEvent(outcome))
              /\ worker_pc' = "no_camera"
    /\ UNCHANGED <<history, last_punch, hands_data, pending, now, frames, emit_log, last_call>>
    /\ UNCHANGED <<stop_event, hand_state_ref, preview_ref, next_frame_time, reads, raised, pose_log>>
    /\ UNCHANGED <<smoother_vars, control_vars>>
    /\ UNCHANGED <<classified, game_vars>>

\* Lines 255-263: HandTracker(max_num_hands=2), outside the try, then the
\* detector and the loop's locals.
WorkerTracker ==
    /\ worker_pc = "tracker"
    /\ \E constructed \in BOOLEAN :
         IF constructed
         THEN /\ worker_pc' = "loop"
              /\ next_frame_time' = Frac(now, 1)
              /\ prev_smoothed' = <<>>
              /\ UNCHANGED raised
         ELSE /\ worker_pc' = "dead"
              /\ raised' = "HandTracker.__init__"
              /\ UNCHANGED <<next_frame_time, prev_smoothed>>
    /\ UNCHANGED detector_vars
    /\ UNCHANGED <<raw_hands, smoothed_hands, run_of, smooth_calls>>
    /\ UNCHANGED <<stop_event, hand_state_ref, preview_ref, reads, pose_log>>
    /\ UNCHANGED control_vars
    /\ UNCHANGED <<classified, game_vars>>

\* Lines 265-270 and, when no frame is due, line 287.
WorkerLoop ==
    /\ worker_pc = "loop"
    /\ IF StopRequested(stop_event)
       THEN worker_pc' = "release" /\ UNCHANGED <<now, reads>>
       ELSE /\ reads < MaxReads
            /\ reads' = reads + 1
            /\ \E ok \in BOOLEAN, gap \in WorkerGaps :
                 IF ~ok
                 THEN worker_pc' = "release" /\ UNCHANGED now
                 ELSE /\ now' = now + gap
                      /\ worker_pc' = IF FrameDue(now + gap, next_frame_time)
                                      THEN "frame" ELSE "loop"
    /\ UNCHANGED <<history, last_punch, event_queue, hands_data, pending, frames, emit_log, last_call>>
    /\ UNCHANGED <<stop_event, hand_state_ref, preview_ref, next_frame_time, raised, pose_log>>
    /\ UNCHANGED <<smoother_vars, control_vars>>
    /\ UNCHANGED <<classified, game_vars>>

\* Lines 271-273: tracker.process, _smooth_landmarks and the call of
\* process_hands, whose loop UpdateAndDetect then runs.
WorkerFrame ==
    /\ worker_pc = "frame"
    /\ \E hd \in WorkerInputs :
         LET r == SmoothLandmarks(hd, prev_smoothed)
         IN  /\ raw_hands' = hd
             /\ smoothed_hands' = r.result
             /\ prev_smoothed' = r.prev
             /\ run_of' = [hid \in HandIds |-> RunAfter(run_of[hid], hid, hd, prev_smoothed)]
             /\ hands_data' = r.result
             /\ pending' = r.result
    /\ smooth_calls' = smooth_calls + 1
    /\ frames' = frames + 1
    /\ worker_pc' = "detect"
    /\ UNCHANGED <<history, last_punch, event_queue, now, emit_log, last_call>>
    /\ UNCHANGED <<stop_event, hand_state_ref, preview_ref, next_frame_time, reads, raised, pose_log>>
    /\ UNCHANGED control_vars
    /\ UNCHANGED <<classified, game_vars>>

\* Lines 275-287: the pose cell, the preview cell (its dots blue when the
\* state just stored says blocking), the next frame time and the sleep.
WorkerPublish ==
    /\ worker_pc = "detect"
    /\ pending = <<>>
    /\ LET state == ComputeHandState(hands_data)
           stored == StoreCell(hand_state_ref, state)
       IN  /\ hand_state_ref' = stored
           /\ preview_ref' = [frame |-> reads, dots |-> hands_data,
                              blue |-> hands_data # <<>> /\ stored.blocking]
           /\ pose_log' = Append(pose_log, [of |-> hands_data, state |-> stored, at |-> now])
    /\ next_frame_time' = FracPlus(Frac(now, 1), frame_interval)
    /\ worker_pc' = "loop"
    /\ UNCHANGED <<detector_vars, smoother_vars, control_vars>>
    /\ UNCHANGED <<stop_event, reads, raised>>
    /\ UNCHANGED <<classified, game_vars>>

\* Line 289: camera.release() and the end of the function.
WorkerRelease ==
    /\ worker_pc = "release"
    /\ worker_pc' = "done"
    /\ UNCHANGED <<detector_vars, smoother_vars, control_vars>>
    /\ UNCHANGED <<stop_event, hand_state_ref, preview_ref, next_frame_time, reads, raised, pose_log>>
    /\ UNCHANGED <<classified, game_vars>>

WorkerStep ==
    \/ WorkerOpen
    \/ WorkerTracker
    \/ WorkerLoop
    \/ WorkerFrame
    \/ UpdateAndDetect
    \/ WorkerPublish
    \/ WorkerRelease

\* main, lines 79-125: the tick's pygame events; a QUIT or an ESCAPE clears
\* running, and the tick goes on.
CtlEvents ==
    /\ ctl_pc = "events"
    /\ \E quit \in BOOLEAN : running' = (running /\ ~quit)
    /\ ctl_pc' = "drain"
    /\ UNCHANGED <<consumed, cv_error, hs>>
    /\ UNCHANGED <<detector_vars, smoother_vars, worker_vars>>
    /\ UNCHANGED <<classified, game_vars>>

\* main, lines 128-140: one turn of the drain loop.
CtlDrain ==
    /\ ctl_pc = "drain"
    /\ IF event_queue = <<>>
       THEN /\ ctl_pc' = "pose"
            /\ UNCHANGED <<event_queue, consumed, cv_error>>
       ELSE LET got == GetNowait(event_queue)
            IN  /\ event_queue' = got.rest
                /\ consumed' = Append(consumed, got.ev)
                /\ cv_error' = IF got.ev.type = "error" THEN got.ev.message ELSE cv_error
                /\ UNCHANGED ctl_pc
    /\ UNCHANGED <<running, hs>>
    /\ UNCHANGED <<history, last_punch, hands_data, pending, now, frames, emit_log, last_call>>
    /\ UNCHANGED <<smoother_vars, worker_vars>>
    /\ UNCHANGED <<classified, game_vars>>

\* main, lines 143-224: the read of the pose cell and the rest of the tick,
\* which touches nothing the worker shares.
CtlReadPose ==
    /\ ctl_pc = "pose"
    /\ hs' = hand_state_ref
    /\ ctl_pc' = IF running THEN "events" ELSE "exit"
    /\ UNCHANGED <<consumed, running, cv_error>>
    /\ UNCHANGED <<detector_vars, smoother_vars, worker_vars>>
    /\ UNCHANGED <<classified, game_vars>>

\* main, line 226: stop_event.set().
CtlStop ==
    /\ ctl_pc = "exit"
    /\ stop_event' = TRUE
    /\ ctl_pc' = "join"
    /\ UNCHANGED <<consumed, running, cv_error, hs>>
    /\ UNCHANGED <<detector_vars, smoother_vars>>
    /\ UNCHANGED <<worker_pc, hand_state_ref, preview_ref, next_frame_time, reads, raised, pose_log>>
    /\ UNCHANGED <<classified, game_vars>>

\* main, lines 227-228: cv_thread.join(timeout=2.0) returns when the worker
\* has ended or two seconds have passed.
CtlJoin ==
    /\ ctl_pc = "join"
    /\ ctl_pc' = "quit"
    /\ UNCHANGED <<consumed, running, cv_error, hs>>
    /\ UNCHANGED <<detector_vars, smoother_vars, worker_vars>>
    /\ UNCHANGED <<classified, game_vars>>

ControlStep == CtlEvents \/ CtlDrain \/ CtlReadPose \/ CtlStop \/ CtlJoin

WorkerNext == WorkerStep \/ ControlStep

WorkerSpec == Init /\ [][WorkerNext]_vars

\* The square roots the detector takes in the worker are exact, and the
\* smoothing state of a label is its big fist.
ExactWorker ==
    /\ \A i \in DOMAIN hands_data :
          HandSize(hands_data[i].landmarks) * HandSize(hands_data[i].landmarks)
              = BoxDiag2(hands_data[i].landmarks)
    /\ \A hid \in DOMAIN prev_smoothed :
          prev_smoothed[hid] = IF hid = "left" THEN LeftBig ELSE RightBig

-----------------------------------------------------------------------------
(* The resolver as run_cv_thread applies it: with a frame's hands_data in  *)
(* hand, the pose cell receives the state computed from it.                *)

PoseInit == hands_data \in PoseInputs /\ InitRest

ResolvePose ==
    /\ pose_log = <<>>
    /\ hand_state_ref' = ComputeHandState(hands_data)
    /\ pose_log' = Append(pose_log, [of |-> hands_data, state |-> ComputeHandState(hands_data),
                                     at |-> now])
    /\ UNCHANGED <<detector_vars, smoother_vars, control_vars>>
    /\ UNCHANGED <<worker_pc, stop_event, preview_ref, next_frame_time, reads, raised>>
    /\ UNCHANGED <<classified, game_vars>>

PoseNext == ResolvePose

PoseSpec == PoseInit /\ [][PoseNext]_vars

-----------------------------------------------------------------------------
(* The fist classifier on its own: _is_fist applied to one hand.  The hands *)
(* are the big fist of the lattice (wrist at <<0.45, 0.5>>, the PIP joints  *)
(* one row of 0.05 below the fingertips' open position) with the four      *)
(* fingertips, the PIP joints, the thumb and the depths moved about.       *)

FingerTips == <<INDEX_TIP, MIDDLE_TIP, RING_TIP, PINKY_TIP>>
FingerPips == <<INDEX_PIP, MIDDLE_PIP, RING_PIP, PINKY_PIP>>

\* Fingertip places, per finger: on the wrist; on the knuckle, where the
\* fist has it; on the circle d_tip = 1.3 * d_pip around the wrist (the
\* lattice PIPs lie at squared distances 1250000, 1000000, 1250000 and
\* 2000000 from it); one unit outside that circle.
TipPlaces == {"wrist", "knuckle", "edge", "beyond"}
EdgeOffset == <<<<-250, -1250>>, <<-300, -1100>>, <<250, -1250>>, <<200, -1600>>>>

TipAt(f, place, wrist) ==
    CASE place = "wrist" -> <<wrist[1], wrist[2]>>
      [] place = "knuckle" -> <<At(FistBig, FingerTips[f])[1], At(FistBig, FingerTips[f])[2]>>
      [] place = "edge" -> <<wrist[1] + EdgeOffset[f][1], wrist[2] + EdgeOffset[f][2]>>
      [] OTHER -> <<wrist[1] + EdgeOffset[f][1], wrist[2] + EdgeOffset[f][2] - 1>>

\* Thumb tips, relative to the pinky tip: the lattice's extended thumb; a
\* thumb tucked in at exactly 0.05 from the pinky tip; one at 0.0499....
ThumbPlaces == {"extended", "tucked", "touching"}

ThumbAt(place, pinky) ==
    CASE place = "extended" -> <<At(FistBig, THUMB_TIP)[1], At(FistBig, THUMB_TIP)[2]>>
      [] place = "tucked" -> <<pinky[1] + 300, pinky[2] + 400>>
      [] OTHER -> <<pinky[1] + 300, pinky[2] + 399>>

\* Depths: every landmark at 0, or the fingertips far in front of the wrist.
DepthModes == {"flat", "deep"}

DepthOf(j, mode) ==
    IF mode = "flat" THEN 0
    ELSE IF \E f \in 1..4 : FingerTips[f] = j THEN -3000
    ELSE IF j = WRIST THEN 2000 ELSE 0

FistHand(tips, pips_on_wrist, thumb, depth) ==
    LET wrist == At(FistBig, WRIST)
        pinky == TipAt(4, tips[4], wrist)
        xy(j) ==
            IF \E f \in 1..4 : FingerTips[f] = j
            THEN TipAt(CHOOSE f \in 1..4 : FingerTips[f] = j,
                       tips[CHOOSE f \in 1..4 : FingerTips[f] = j], wrist)
            ELSE IF pips_on_wrist /\ \E f \in 1..4 : FingerPips[f] = j
            THEN <<wrist[1], wrist[2]>>
            ELSE IF j = THUMB_TIP THEN ThumbAt(thumb, pinky)
            ELSE <<At(FistBig, j)[1], At(FistBig, j)[2]>>
    IN  [i \in 1..21 |-> <<xy(i - 1)[1], xy(i - 1)[2], DepthOf(i - 1, depth)>>]

FistInputs ==
    {FistHand(tips, pw, thumb, depth) :
        tips \in [1..4 -> TipPlaces], pw \in BOOLEAN,
        thumb \in ThumbPlaces, depth \in DepthModes}

\* The hand in hand is any of them.
FistInit ==
    /\ hands_data \in {<<Obs("Left", lm)>> : lm \in FistInputs}
    /\ InitRest

IsFistCall ==
    /\ ~classified.called
    /\ hands_data # <<>>
    /\ classified' = [called |-> TRUE,
                      landmarks |-> hands_data[1].landmarks,
                      result |-> IsFist(hands_data[1].landmarks)]
    /\ UNCHANGED <<detector_vars, smoother_vars, worker_vars, control_vars, game_vars>>

FistNext == IsFistCall

FistSpec == FistInit /\ [][FistNext]_vars

-----------------------------------------------------------------------------
(* The opponent, src/game/opponent.py, as main drives it: update once per   *)
(* tick with the tick's length, take_damage for a punch event.  Timers are *)
(* in milliseconds; the draws of random are choices.                       *)

\* main, lines 28-29 and 139: PUNCH_DAMAGE_BASE + strength * 0.0 * 10.
PUNCH_DAMAGE_BASE == 1
PunchDamage == PUNCH_DAMAGE_BASE

\* max(0, x)
Max0(x) == IF x < 0 THEN 0 ELSE x

\* Opponent._telegraph_duration
telegraph_duration(o) ==
    LET d == TELEGRAPH_DURATION - (o.round - 1) * ((5 * Unit.time) \div 100)
        least == (2 * Unit.time) \div 10
    IN  IF d < least THEN least ELSE d

\* What _choose_next_attack can return, and values of random.uniform(0.2, 0.5)
\* and random.uniform(0.5, 1.2).
NextAttacks == {"block", "left", "right"}
IdleTimes == {200, 500}
BlockTimes == {500, 1200}

\* Tick lengths dt = clock.tick(60) / 1000.
Ticks == {50, 200}

\* Opponent.update(dt): the object afterwards and the attack returned
\* (<<>> for None).
update(o, dt, action, idle_for, block_for) ==
    LET timed == [o EXCEPT !.state_timer = o.state_timer - dt,
                           !.hit_timer = Max0(o.hit_timer - dt),
                           !.invuln_timer = Max0(o.invuln_timer - dt)]
        due == timed.state_timer <= 0
    IN  IF timed.hit_timer > 0 THEN [o |-> timed, attack |-> <<>>]
        ELSE IF ~due THEN [o |-> timed, attack |-> <<>>]
        ELSE CASE timed.state = "idle" ->
                    IF action = "block"
                    THEN [o |-> [timed EXCEPT !.state = "blocking", !.state_timer = block_for],
                          attack |-> <<>>]
                    ELSE [o |-> [timed EXCEPT !.state = "telegraph", !.attack_side = action,
                                              !.state_timer = telegraph_duration(timed)],
                          attack |-> <<>>]
               [] timed.state = "telegraph" ->
                    [o |-> [timed EXCEPT !.state = "attacking", !.state_timer = AttackDuration],
                     attack |-> <<[side |-> timed.attack_side, damage |-> 1]>>]
               [] timed.state = "attacking" ->
                    [o |-> [timed EXCEPT !.state = "vulnerable",
                                         !.state_timer = VULNERABLE_DURATION,
                                         !.combo_index = (timed.combo_index + 1) % 3],
                     attack |-> <<>>]
               [] OTHER ->
                    [o |-> [timed EXCEPT !.state = "idle", !.state_timer = idle_for],
                     attack |-> <<>>]

\* Mutation of take_damage: the invulnerability timer is not looked at.
take_damage_NoInvuln(o, amount) ==
    IF o.state # "vulnerable" THEN [o |-> o, took |-> FALSE]
    ELSE [o |-> [o EXCEPT !.hp = Max0(o.hp - amount),
                          !.hit_timer = o.hit_anim_duration,
                          !.invuln_timer = o.hit_anim_duration],
          took |-> TRUE]

\* Opponent.take_damage(amount): the object afterwards and the value returned.
take_damage(o, amount) ==
    IF o.state # "vulnerable" \/ o.invuln_timer > 0 THEN [o |-> o, took |-> FALSE]
    ELSE [o |-> [o EXCEPT !.hp = Max0(o.hp - amount),
                          !.hit_timer = o.hit_anim_duration,
                          !.invuln_timer = o.hit_anim_duration],
          took |-> TRUE]

OpponentUpdate ==
    /\ \E dt \in Ticks, action \in NextAttacks, idle_for \in IdleTimes, block_for \in BlockTimes :
         \E r \in {update(opponent, dt, action, idle_for, block_for)} :
            /\ opponent' = r.o
            /\ opp_call' = [op |-> "update", took |-> FALSE, attack |-> r.attack,
                            since |-> IF opp_call.since + dt > opponent.hit_anim_duration
                                      THEN opponent.hit_anim_duration
                                      ELSE opp_call.since + dt]
    /\ UNCHANGED <<detector_vars, smoother_vars, worker_vars, control_vars, classified, loop_vars>>

OpponentTakeDamage ==
    /\ \E r \in {take_damage(opponent, PunchDamage)} :
            /\ opponent' = r.o
            /\ opp_call' = [op |-> "take_damage", took |-> r.took, attack |-> <<>>,
                            since |-> IF r.took THEN 0 ELSE opp_call.since]
    /\ UNCHANGED <<detector_vars, smoother_vars, worker_vars, control_vars, classified, loop_vars>>

OpponentNext == OpponentUpdate \/ OpponentTakeDamage

OpponentSpec == Init /\ [][OpponentNext]_vars

-----------------------------------------------------------------------------
(* The game loop of src/main.py, one tick in three steps: the clock, the    *)
(* key events and the drain of the event queue (lines 78-140), the dodge   *)
(* and block state (142-157), and the step of the game state (159-190).    *)
(* Rendering changes nothing that the loop reads.  What the tick takes     *)
(* from outside is drawn: its length, the key that went down, the B key,   *)
(* the punch events waiting in the queue and the pose state the worker     *)
(* left in the cell.                                                       *)

\* Tick lengths dt = clock.tick(60) / 1000 while a round is fought: a short
\* tick, a long one, and a stall of the process for the length of a round.
\* Outside a round the loop is followed in ticks of the countdown's length.
ShortTick == (5 * Unit.time) \div 100
LongTick == (35 * Unit.time) \div 100
GameTicks == {ShortTick, LongTick, ROUND_DURATION}
IdleTicks == {CountdownStart}

\* A round is followed tick by tick for this many short ticks' time, and
\* from there on by a stall only.
MaxFightTicks == 24

TickLengths(game_state, round_timer) ==
    IF game_state # "FIGHTING" THEN IdleTicks
    ELSE IF round_timer >= MaxFightTicks * ShortTick THEN {ROUND_DURATION}
    ELSE {dt \in GameTicks : round_timer + dt <= MaxFightTicks * ShortTick}

\* The key-down event of a tick, if any, as far as the game state reads it;
\* QUIT stands for pygame.QUIT and for ESCAPE outside fullscreen.  During a
\* round no key but these has an effect, and of these the space bar is the
\* one pressed: the window is closed between rounds only.
Keys == {"none", "SPACE", "R", "QUIT"}
KeysIn(game_state) == IF game_state = "FIGHTING" THEN {"none", "SPACE"} ELSE Keys

\* What the drain of a tick can find in the queue.
DrainedEvents == {<<>>, <<[type |-> "punch", hand |-> "left", strength |-> One]>>}

\* The blocking and dodging entries of pose states the worker publishes: no
\* guard, a guard, and a lean to the left without one.
PoseCells ==
    {[blocking |-> FALSE, dodging |-> None], [blocking |-> TRUE, dodging |-> None],
     [blocking |-> FALSE, dodging |-> "left"]}

\* Player.reset
player_reset(p) ==
    [p EXCEPT !.hp = p.max_hp, !.dodging = None, !.blocking = FALSE,
              !.invincibility_timer = 0, !.block_cooldown_timer = 0]

\* Player.take_damage(amount): the object afterwards and the value returned.
player_take_damage(p, amount) ==
    IF p.invincibility_timer > 0 THEN [p |-> p, took |-> FALSE]
    ELSE [p |-> [p EXCEPT !.hp = Max0(p.hp - amount),
                          !.invincibility_timer = p.invincibility_duration],
          took |-> TRUE]

\* Player.update(dt)
player_update(p, dt) ==
    [p EXCEPT !.invincibility_timer = Max0(p.invincibility_timer - dt),
              !.block_cooldown_timer = Max0(p.block_cooldown_timer - dt)]

\* Opponent.reset(round_num)
reset(o, round_num) ==
    [o EXCEPT !.hp = o.max_hp, !.state = "idle", !.state_timer = 0, !.attack_side = None,
              !.combo_index = 0, !.round = round_num, !.hit_timer = 0, !.invuln_timer = 0,
              !.hit_anim_duration = HitAnimFallback]

\* main, lines 148-151: the sustain timer after the tick's refresh and decrement.
SustainAfter(cv_block, block_key_held, block_sustain_timer, dt) ==
    LET refreshed == IF cv_block \/ block_key_held THEN BLOCK_SUSTAIN_SEC
                     ELSE block_sustain_timer
    IN  IF refreshed > 0 THEN refreshed - dt ELSE refreshed

\* Mutation of EffectiveBlock: the block cooldown is not looked at.
EffectiveBlock_NoCooldown(cv_block, block_key_held, block_sustain_timer, block_cooldown_timer) ==
    cv_block \/ block_key_held \/ block_sustain_timer > 0

\* main, lines 153-155: the value given to player.blocking while FIGHTING.
EffectiveBlock(cv_block, block_key_held, block_sustain_timer, block_cooldown_timer) ==
    (cv_block \/ block_key_held \/ block_sustain_timer > 0) /\ block_cooldown_timer <= 0

\* main, lines 175-178
Dodged(side, dodging) ==
    \/ side = "left" /\ dodging = "right"
    \/ side = "right" /\ dodging = "left"

\* main, lines 82-125: the locals and objects after the key event of a tick.
KeyDown(key) ==
    LET next_round == game.current_round + 1
        wins == IF game.round_end_player_won = <<TRUE>> THEN game.player_round_wins + 1
                ELSE game.player_round_wins
        same == [running |-> running, game |-> game, player |-> player,
                 opponent |-> opponent, since_block |-> since_block]
    IN  CASE key = "QUIT" -> [same EXCEPT !.running = FALSE]
          [] key = "SPACE" /\ game.game_state = "TITLE" ->
                [same EXCEPT !.game = [game EXCEPT !.game_state = "CALIBRATION",
                                                   !.countdown_timer = CountdownStart]]
          [] key = "SPACE" /\ game.game_state = "ROUND_END" /\ next_round > ROUNDS_TOTAL ->
                [same EXCEPT !.game = [game EXCEPT !.player_round_wins = wins,
                                                   !.current_round = next_round,
                                                   !.game_state = IF wins >= 2 THEN "VICTORY"
                                                                  ELSE "GAME_OVER"]]
          [] key = "SPACE" /\ game.game_state = "ROUND_END" /\ next_round <= ROUNDS_TOTAL ->
                [same EXCEPT !.game = [game EXCEPT !.player_round_wins = wins,
                                                   !.current_round = next_round,
                                                   !.round_timer = 0,
                                                   !.game_state = "FIGHTING"],
                             !.player = player_reset(player),
                             !.opponent = reset(opponent, next_round),
                             !.since_block = <<>>]
          [] key = "R" /\ game.game_state \in {"GAME_OVER", "VICTORY"} ->
                [same EXCEPT !.game = [game EXCEPT !.game_state = "TITLE", !.current_round = 1,
                                                   !.round_timer = 0, !.player_round_wins = 0],
                             !.player = NewPlayer,
                             !.opponent = NewOpponent,
                             !.since_block = <<>>]
          [] OTHER -> same

\* main, lines 127-140: the opponent after the drain of the queue; a punch
\* event lands on a vulnerable opponent while FIGHTING.
Drained(evs, game_state, o) ==
    IF evs # <<>> /\ game_state = "FIGHTING" /\ o.state = "vulnerable"
    THEN take_damage(o, PunchDamage).o
    ELSE o

\* main, lines 78-140: the loop's test of running, the tick's length, its key
\* event and the drain of the event queue.
GameEvents ==
    /\ game_pc = "events"
    /\ running
    /\ game_pc' = "block"
    /\ \E key \in KeysIn(game.game_state), evs \in DrainedEvents :
         \E k \in {KeyDown(key)} :
           \E dt \in TickLengths(k.game.game_state, k.game.round_timer) :
              /\ tick' = [NoTick EXCEPT !.dt = dt]
              /\ running' = k.running
              /\ game' = k.game
              /\ player' = k.player
              /\ opponent' = Drained(evs, k.game.game_state, k.opponent)
              /\ since_block' = k.since_block
    /\ UNCHANGED <<detector_vars, smoother_vars, worker_vars, ctl_pc, consumed, cv_error, hs,
                   classified, opp_call>>

\* main, lines 142-157: the pose state is read and player.blocking is set.
GameBlock ==
    /\ game_pc = "block"
    /\ game_pc' = "step"
    /\ \E cell \in PoseCells, key_b \in BOOLEAN :
         IF game.game_state = "FIGHTING"
         THEN \E sustain \in {SustainAfter(cell.blocking, key_b,
                                           game.block_sustain_timer, tick.dt)} :
                 /\ tick' = [tick EXCEPT !.bound = TRUE, !.cv_block = cell.blocking,
                                         !.block_key_held = key_b]
                 /\ game' = [game EXCEPT !.block_sustain_timer = sustain]
                 /\ player' = [player EXCEPT
                                 !.dodging = cell.dodging,
                                 !.blocking = EffectiveBlock(cell.blocking, key_b, sustain,
                                                             player.block_cooldown_timer)]
         ELSE /\ player' = [player EXCEPT !.dodging = cell.dodging, !.blocking = FALSE]
              /\ UNCHANGED <<game, tick>>
    /\ UNCHANGED <<detector_vars, smoother_vars, worker_vars, control_vars, classified,
                   opponent, opp_call, since_block>>

\* The draws of random that Opponent.update(dt) makes on o, one record for
\* each outcome: none while the hit animation runs or the state's timer has
\* not run out, _choose_next_attack and the block's length out of idle, the
\* idle's length out of vulnerable and blocking.
Draws(o, dt) ==
    LET none == {[action |-> "left", idle_for |-> 200, block_for |-> 500]}
    IN  IF Max0(o.hit_timer - dt) > 0 \/ o.state_timer - dt > 0 THEN none
        ELSE CASE o.state = "idle" ->
                    {[action |-> a, idle_for |-> 200, block_for |-> 500] :
                        a \in NextAttacks \ {"block"}}
                    \cup {[action |-> "block", idle_for |-> 200, block_for |-> b] :
                             b \in BlockTimes}
               [] o.state \in {"vulnerable", "blocking"} ->
                    {[action |-> "left", idle_for |-> i, block_for |-> 500] : i \in IdleTimes}
               [] OTHER -> none

\* main, lines 167-190: one FIGHTING step, given the draws of the opponent.
Fight(action, idle_for, block_for) ==
    LET dt == tick.dt
        updated == player_update(player, dt)
        r == update(opponent, dt, action, idle_for, block_for)
        attacked == r.attack # <<>>
        dodged == attacked /\ Dodged(r.attack[1].side, updated.dodging)
        blocked == attacked /\ updated.blocking
        p == IF attacked /\ ~dodged /\ ~blocked
             THEN player_take_damage(updated, r.attack[1].damage).p
             ELSE IF blocked
                  THEN [updated EXCEPT !.block_cooldown_timer = BLOCK_COOLDOWN_AFTER_HIT]
                  ELSE updated
        round_timer == game.round_timer + dt
    IN  [player |-> p,
         opponent |-> r.o,
         blocked |-> blocked,
         game |-> IF p.hp <= 0
                  THEN [game EXCEPT !.round_timer = round_timer, !.game_state = "GAME_OVER"]
                  ELSE IF r.o.hp <= 0
                  THEN [game EXCEPT !.round_timer = round_timer, !.game_state = "VICTORY"]
                  ELSE IF round_timer >= ROUND_DURATION
                  THEN [game EXCEPT !.round_timer = round_timer, !.game_state = "ROUND_END",
                                    !.round_end_player_won = <<p.hp > r.o.hp>>]
                  ELSE [game EXCEPT !.round_timer = round_timer]]

\* main, lines 159-190, to the end of the tick.
GameStep ==
    /\ game_pc = "step"
    /\ game_pc' = "events"
    /\ tick' = NoTick
    /\ CASE game.game_state = "CALIBRATION" ->
              IF game.countdown_timer - tick.dt <= 0
              THEN /\ game' = [game EXCEPT !.countdown_timer = game.countdown_timer - tick.dt,
                                           !.game_state = "FIGHTING", !.round_timer = 0]
                   /\ player' = player_reset(player)
                   /\ opponent' = reset(opponent, 1)
                   /\ since_block' = <<>>
              ELSE /\ game' = [game EXCEPT !.countdown_timer = game.countdown_timer - tick.dt]
                   /\ UNCHANGED <<player, opponent, since_block>>
         [] game.game_state = "FIGHTING" ->
              \E d \in Draws(opponent, tick.dt) :
                \E f \in {Fight(d.action, d.idle_for, d.block_for)} :
                   /\ player' = f.player
                   /\ opponent' = f.opponent
                   /\ game' = f.game
                   /\ since_block' =
                        IF f.blocked THEN <<0>>
                        ELSE IF since_block = <<>> THEN <<>>
                        ELSE IF since_block[1] + tick.dt > BLOCK_COOLDOWN_AFTER_HIT
                             THEN <<BLOCK_COOLDOWN_AFTER_HIT>>
                             ELSE <<since_block[1] + tick.dt>>
         [] OTHER -> UNCHANGED <<player, opponent, game, since_block>>
    /\ UNCHANGED <<detector_vars, smoother_vars, worker_vars, control_vars, classified,
                   opp_call>>

GameNext == GameEvents \/ GameBlock \/ GameStep

GameSpec == Init /\ [][GameNext]_vars

-----------------------------------------------------------------------------
(* What the claims below read off a call of _update_and_detect.  In a step *)
(* with pending # <<>> the call is the one on Head(pending); history' then *)
(* holds the window the call's velocity is taken from.                     *)

Sorted(h) == \A i, j \in DOMAIN h : i < j => h[i][1] <= h[j][1]

\* Differences between the newest and the oldest sample of a window.
SpanT(h) == h[Len(h)][1] - h[1][1]
SpanSize(h) == h[Len(h)][2] - h[1][2]
SpanZ(h) == h[Len(h)][3] - h[1][3]

\* size_velocity > 0.07, size_velocity = 0.07 and depth_velocity < -0.35 for a
\* window of positive time span, cleared of denominators.
SizeAbove(h) == SpanSize(h) * Unit.time * 100 > 7 * SpanT(h) * Unit.coord
SizeAtThreshold(h) == SpanSize(h) * Unit.time * 100 = 7 * SpanT(h) * Unit.coord
DepthBelow(h) == SpanZ(h) * Unit.time * 100 < (-35) * SpanT(h) * Unit.coord

CallHid == Lower(Head(pending).handedness)
CallPuts == Len(event_queue') = Len(event_queue) + 1
LastHid == Lower(last_call.handedness)

\* C1. Cooldown invariant: no two punch events put for the same hand label
\* have emission timestamps less than the cooldown (200 ms) apart.
C1_CooldownInvariant ==
    \A i, j \in DOMAIN emit_log :
        (i < j /\ emit_log[i][1] = emit_log[j][1])
            => Abs(emit_log[j][2] - emit_log[i][2]) >= cooldown_sec

\* Two events have been put for one hand label.
C1_Witness ==
    \E i, j \in DOMAIN emit_log : i < j /\ emit_log[i][1] = emit_log[j][1]

\* C2. A call that passes the fist, cooldown, sample-count and time-span
\* checks puts an event if and only if size_velocity > 0.07 or
\* depth_velocity < -0.35, both strict.
C2_EmitIffTowardCamera ==
    [][pending # <<>> =>
        LET h == history'[CallHid]
        IN  (/\ IsFist(Head(pending).landmarks)
             /\ now - LastPunchGet(last_punch, CallHid) >= cooldown_sec
             /\ Len(h) >= 2
             /\ SpanT(h) > 0)
            => (CallPuts <=> (SizeAbove(h) \/ DepthBelow(h)))]_vars

\* A call passed the four checks with size_velocity exactly 0.07 and
\* depth_velocity not below -0.35, and put nothing.
C2_Witness ==
    /\ last_call.valid
    /\ IsFist(last_call.landmarks)
    /\ last_call.t - last_call.last >= cooldown_sec
    /\ Len(history[LastHid]) >= 2
    /\ SpanT(history[LastHid]) > 0
    /\ SizeAtThreshold(history[LastHid])
    /\ ~DepthBelow(history[LastHid])
    /\ ~last_call.emitted

\* C3. Fist gate: a call on landmarks that are not a closed fist puts no
\* event and leaves the last-punch table unchanged.
C3_FistGate ==
    [][(pending # <<>> /\ ~IsFist(Head(pending).landmarks))
        => (event_queue' = event_queue /\ last_punch' = last_punch)]_vars

\* A call on an open hand whose window shows a size velocity above the
\* threshold, outside any cooldown, put nothing.
C3_Witness ==
    /\ last_call.valid
    /\ ~IsFist(last_call.landmarks)
    /\ last_call.t - last_call.last >= cooldown_sec
    /\ Len(history[LastHid]) >= 2
    /\ SpanT(history[LastHid]) > 0
    /\ SizeAbove(history[LastHid])
    /\ ~last_call.emitted
    /\ event_queue = <<>>

\* C4. Cooldown as the only debouncing: after an event for a hand at t0, a
\* call of that hand at t with a closed fist and a toward-camera velocity
\* puts an event if and only if t - t0 >= cooldown, whatever came between.
C4_CooldownOnly ==
    [][(pending # <<>> /\ CallHid \in DOMAIN last_punch) =>
        LET h == history'[CallHid]
        IN  (/\ IsFist(Head(pending).landmarks)
             /\ Len(h) >= 2
             /\ SpanT(h) > 0
             /\ (SizeAbove(h) \/ DepthBelow(h)))
            => (CallPuts <=> now - last_punch[CallHid] >= cooldown_sec)]_vars

\* A hand seen in three frames put an event in the second and, exactly one
\* cooldown later, another in the third: no frame lies between the two.
C4_Witness ==
    /\ last_call.valid
    /\ last_call.emitted
    /\ IsFist(last_call.landmarks)
    /\ last_call.t - last_call.last = cooldown_sec
    /\ emit_log = <<<<LastHid, last_call.last>>, <<LastHid, last_call.t>>>>
    /\ frames = 3
    /\ Len(history[LastHid]) = 3

\* C5. Every event on the queue has type "punch", a lower-cased hand label
\* and a strength in [0, 1] equal to min(1, |size_velocity| / (2 * 0.07)).
C5_EventShape ==
    [][/\ \A i \in DOMAIN event_queue' :
            LET e == event_queue'[i]
            IN  /\ e.type = "punch"
                /\ e.hand \in {"left", "right"}
                /\ e.strength.den > 0
                /\ 0 <= e.strength.num
                /\ e.strength.num <= e.strength.den
       /\ (pending # <<>> /\ CallPuts) =>
            LET e == event_queue'[Len(event_queue')]
                h == history'[CallHid]
                mag == Abs(SpanSize(h)) * Unit.time * 100
                twice == 2 * 7 * SpanT(h) * Unit.coord
            IN  /\ e.hand = CallHid
                /\ IF mag >= twice
                   THEN e.strength.num = e.strength.den
                   ELSE e.strength.num * twice = e.strength.den * mag]_vars

\* An event was put on the depth condition alone, by a hand whose size
\* shrank over the window.
C5_Witness ==
    /\ last_call.valid
    /\ last_call.emitted
    /\ SpanSize(history[LastHid]) < 0
    /\ DepthBelow(history[LastHid])
    /\ event_queue[Len(event_queue)].hand = LastHid

\* C6. Every motion history is a FIFO window of at most history_frames (5)
\* samples: an append to a full window drops exactly the oldest sample and
\* keeps the others in insertion order.
C6_BoundedFifo ==
    [][/\ \A hid \in HandIds : Len(history'[hid]) <= history_frames
       /\ pending # <<>> =>
            LET h == history[CallHid]
                g == history'[CallHid]
            IN  IF Len(h) = history_frames
                THEN Len(g) = history_frames /\ SubSeq(g, 1, Len(g) - 1) = Tail(h)
                ELSE Len(g) = Len(h) + 1 /\ SubSeq(g, 1, Len(h)) = h]_vars

\* A sample was appended to a window that already held five.
C6_Witness ==
    /\ last_call.valid
    /\ last_call.full
    /\ Len(history[LastHid]) = history_frames
    /\ history[LastHid][history_frames][1] = last_call.t

\* Number of observations of a list that carry the hand label hid.
RECURSIVE Carrying(_, _)
Carrying(hd, hid) ==
    IF hd = <<>> THEN 0
    ELSE (IF Lower(Head(hd).handedness) = hid THEN 1 ELSE 0) + Carrying(Tail(hd), hid)

\* Samples of a window taken in the frame at time t.
SamplesAt(h, t) == Cardinality({i \in DOMAIN h : h[i][1] = t})

\* C7 as stated: every history is in non-decreasing timestamp order and gets
\* exactly one sample per processed frame in which its label is visible.
C7_OnePerFrame ==
    /\ \A hid \in HandIds : Sorted(history[hid])
    /\ (pending = <<>> /\ frames > 0) =>
          \A hid \in HandIds :
              SamplesAt(history[hid], now) = IF Carrying(hands_data, hid) > 0 THEN 1 ELSE 0

\* C7, amended. Every history is in non-decreasing timestamp order and gets
\* exactly one sample per observation that carries its label: one per frame
\* when the label occurs once in the frame's list, two when it occurs twice.
C7_OnePerObservation ==
    /\ \A hid \in HandIds : Sorted(history[hid])
    /\ (pending = <<>> /\ frames > 0) =>
          \A hid \in HandIds :
              SamplesAt(history[hid], now) = Carrying(hands_data, hid)

\* A frame with two observations labelled "Left" has been processed after an
\* earlier frame of that hand.
C7_Witness ==
    /\ pending = <<>>
    /\ Carrying(hands_data, "left") = 2
    /\ SamplesAt(history["left"], now) = 2
    /\ Len(history["left"]) > 2

-----------------------------------------------------------------------------
(* Claims about the smoother.  In a SmoothFrame step prev_smoothed is the  *)
(* state passed in and prev_smoothed' the state returned.                  *)

ObsHid(hd, i) == Lower(hd[i].handedness)

\* C8. Smoothing fixed point: a label fed the same landmark set in every
\* frame since its entry was created (N = 1, 2, ... frames) has a smoothed
\* output equal to that input; on a first sighting the output is the raw input.
C8_FixedPoint ==
    /\ \A i \in DOMAIN raw_hands :
          run_of[ObsHid(raw_hands, i)].n = 1
              => smoothed_hands[i].landmarks = raw_hands[i].landmarks
    /\ \A hid \in DOMAIN prev_smoothed :
          run_of[hid].same =>
              /\ prev_smoothed[hid] = run_of[hid].lm
              /\ \A i \in DOMAIN raw_hands :
                    ObsHid(raw_hands, i) = hid
                        => smoothed_hands[i].landmarks = run_of[hid].lm

\* A label has been fed one landmark set in three consecutive frames.
C8_Witness ==
    \E hid \in DOMAIN prev_smoothed :
        /\ run_of[hid].n >= 3
        /\ run_of[hid].same
        /\ Len(run_of[hid].lm) = 21
        /\ prev_smoothed[hid] = run_of[hid].lm

\* C9. The returned smoothing state holds exactly the lower-cased labels of
\* the frame; a label without an entry in the state passed in (never seen,
\* or dropped in a gap) gets its raw landmarks as output.
C9_PurgeAbsent ==
    [][smooth_calls' = smooth_calls + 1 =>
        /\ DOMAIN prev_smoothed' = {ObsHid(raw_hands', i) : i \in DOMAIN raw_hands'}
        /\ DOMAIN prev_smoothed' \subseteq {"left", "right"}
        /\ \A i \in DOMAIN raw_hands' :
              ObsHid(raw_hands', i) \notin DOMAIN prev_smoothed
                  => smoothed_hands'[i].landmarks = raw_hands'[i].landmarks]_vars

\* A label came back after a gap with landmarks other than the smoothed ones
\* it had before, and its output is the raw input.
C9_Witness ==
    /\ run_of["left"].purged >= 1
    /\ run_of["left"].n = 1
    /\ Len(run_of["left"].gone) = 21
    /\ "left" \in DOMAIN prev_smoothed
    /\ prev_smoothed["left"] # run_of["left"].gone
    /\ \E i \in DOMAIN raw_hands :
          /\ ObsHid(raw_hands, i) = "left"
          /\ Len(raw_hands[i].landmarks) = 21
          /\ smoothed_hands[i].landmarks = raw_hands[i].landmarks

\* C10. One output per input, in input order, handedness unchanged; with a
\* prior set for the label, every coordinate of landmark i is
\* 0.35 * raw + 0.65 * prior[i], the prior being the state passed in.
C10_EmaPerCoordinate ==
    [][smooth_calls' = smooth_calls + 1 =>
        /\ Len(smoothed_hands') = Len(raw_hands')
        /\ \A i \in DOMAIN raw_hands' :
              LET raw == raw_hands'[i].landmarks
                  out == smoothed_hands'[i].landmarks
                  hid == ObsHid(raw_hands', i)
              IN  /\ smoothed_hands'[i].handedness = raw_hands'[i].handedness
                  /\ Len(out) = Len(raw)
                  /\ hid \in DOMAIN prev_smoothed =>
                        \A k \in DOMAIN raw :
                            IF k <= Len(prev_smoothed[hid])
                            THEN \A c \in 1..3 :
                                    100 * out[k][c]
                                        = 35 * raw[k][c] + 65 * prev_smoothed[hid][k][c]
                            ELSE out[k] = raw[k]]_vars

\* Two observations of one label were filtered in one call against a prior
\* set, and the second came out different from its raw input.
C10_Witness ==
    /\ Len(raw_hands) = 2
    /\ ObsHid(raw_hands, 1) = ObsHid(raw_hands, 2)
    /\ run_of[ObsHid(raw_hands, 1)].n >= 2
    /\ smoothed_hands[1].landmarks # raw_hands[1].landmarks
    /\ smoothed_hands[2].landmarks # raw_hands[2].landmarks
    /\ smoothed_hands[2].landmarks # smoothed_hands[1].landmarks

-----------------------------------------------------------------------------
(* What the claims below read off a frame handed to _compute_hand_state.   *)

IsLeft(o) == Lower(o.handedness) = "left"
WristX(o) == At(o.landmarks, WRIST)[1]
WristY(o) == At(o.landmarks, WRIST)[2]

\* One observation labelled left and one labelled right.
LeftAndRight(hd) ==
    Len(hd) = 2 /\ \E i, j \in DOMAIN hd : IsLeft(hd[i]) /\ ~IsLeft(hd[j])

\* The dodge direction for twice a reference x: left below 0.35, right above
\* 0.65, both strict.
DirectionOfTwice(x2) ==
    IF 100 * x2 < 2 * 35 * Unit.coord THEN "left"
    ELSE IF 100 * x2 > 2 * 65 * Unit.coord THEN "right"
    ELSE None

\* The frame seen in a mirror: x becomes 1 - x and the labels change sides.
OtherLabel(label) == IF label = "Left" THEN "Right" ELSE "Left"
SwapLabels(hd) ==
    [i \in DOMAIN hd |-> Obs(OtherLabel(hd[i].handedness), hd[i].landmarks)]
Reflect(hd) ==
    [i \in DOMAIN hd |->
        Obs(OtherLabel(hd[i].handedness),
            [k \in DOMAIN hd[i].landmarks |->
                <<Unit.coord - hd[i].landmarks[k][1], hd[i].landmarks[k][2],
                  hd[i].landmarks[k][3]>>])]
MirrorDirection(d) ==
    IF d = "left" THEN "right" ELSE IF d = "right" THEN "left" ELSE d

\* C11: the resolver reports blocking exactly when the frame holds a left and
\* a right wrist, both wrists have y strictly below 0.50 and the wrists are
\* strictly less than 0.4 apart in x; with one hand or none it reports false.
C11_BlockingIffGuard ==
    pose_log # <<>> =>
    /\ hand_state_ref.blocking <=>
          \E i, j \in DOMAIN hands_data :
              /\ IsLeft(hands_data[i]) /\ ~IsLeft(hands_data[j])
              /\ 100 * WristY(hands_data[i]) < 50 * Unit.coord
              /\ 100 * WristY(hands_data[j]) < 50 * Unit.coord
              /\ 10 * Abs(WristX(hands_data[i]) - WristX(hands_data[j])) < 4 * Unit.coord
    /\ Len(hands_data) < 2 => ~hand_state_ref.blocking

\* Scenario A: wrists at y = 0.3 and x = 0.45 and 0.5.
C11_Witness ==
    /\ pose_log # <<>>
    /\ hands_data = <<Obs("Left", HandAt(4500, 3000)), Obs("Right", HandAt(5000, 3000))>>
    /\ hand_state_ref.blocking
    /\ hand_state_ref.dodging = None

\* C12: the dodge direction is taken from a reference x, the mean of the two
\* wrists' x when a left and a right hand are seen and the wrist's x when one
\* hand is seen: left when x < 0.35, right when x > 0.65, none otherwise and
\* none when no hand is seen.
C12_DodgeFromReference ==
    pose_log # <<>> =>
    /\ Len(hands_data) = 0 => hand_state_ref.dodging = None
    /\ Len(hands_data) = 1 =>
          hand_state_ref.dodging = DirectionOfTwice(2 * WristX(hands_data[1]))
    /\ LeftAndRight(hands_data) =>
          hand_state_ref.dodging =
              DirectionOfTwice(WristX(hands_data[1]) + WristX(hands_data[2]))

\* A right wrist at 0.36 alone is no dodge; with the left wrist at 0.25 the
\* mean is 0.305 and the dodge is left.
C12_Witness ==
    /\ pose_log # <<>>
    /\ hands_data = <<Obs("Left", HandAt(2500, 3000)), Obs("Right", HandAt(3600, 3000))>>
    /\ hand_state_ref.dodging = "left"
    /\ ComputeHandState(<<Obs("Right", HandAt(3600, 3000))>>).dodging = None

\* C13 as stated: exchanging the wrists between the two labels mirrors the
\* dodge direction and keeps blocking.
C13_SwapMirrorsDodge ==
    LET swapped == ComputeHandState(SwapLabels(hands_data))
    IN  pose_log # <<>> =>
        /\ swapped.dodging = MirrorDirection(hand_state_ref.dodging)
        /\ swapped.blocking = hand_state_ref.blocking

\* C13: the mirror image of a frame (every x replaced by 1 - x, the labels
\* changing sides) has the mirrored dodge direction and the same blocking;
\* exchanging the labels alone changes neither.
C13_MirrorSymmetry ==
    LET mirrored == ComputeHandState(Reflect(hands_data))
        swapped == ComputeHandState(SwapLabels(hands_data))
    IN  pose_log # <<>> =>
        /\ mirrored.dodging = MirrorDirection(hand_state_ref.dodging)
        /\ mirrored.blocking = hand_state_ref.blocking
        /\ swapped.dodging = hand_state_ref.dodging
        /\ swapped.blocking = hand_state_ref.blocking

\* A guard held on the left of the frame: blocking, dodge left; its mirror
\* image is a guard on the right.
C13_Witness ==
    /\ pose_log # <<>>
    /\ hands_data = <<Obs("Left", HandAt(2500, 3000)), Obs("Right", HandAt(3600, 3000))>>
    /\ hand_state_ref.blocking
    /\ hand_state_ref.dodging = "left"
    /\ ComputeHandState(Reflect(hands_data)).dodging = "right"
    /\ ComputeHandState(Reflect(hands_data)).blocking

-----------------------------------------------------------------------------
(* Malformed and degenerate input to _update_and_detect.                   *)

\* The call in progress got as far as appending its sample.
CallAppends == pending # <<>> /\ ~HandSizeRaises(Head(pending).landmarks)

\* The thumb tip and the pinky tip are less than 0.05 apart.
NarrowSpan(landmarks) ==
    /\ Len(landmarks) > PINKY_TIP
    /\ 20 * Sqrt(Dist2(At(landmarks, THUMB_TIP), At(landmarks, PINKY_TIP))) < Unit.coord

\* C15 as stated: a call on an observation whose landmark count is not 21
\* raises nothing, puts no event and is followed by the calls on the
\* remaining observations of the list.
C15_MalformedIsMiss ==
    [][pending # <<>> /\ Len(Head(pending).landmarks) # 21
        => /\ raised' = None
           /\ event_queue' = event_queue
           /\ pending' = Tail(pending)]_vars

\* C16: a call whose window, with its own sample in it, spans zero time, or
\* whose thumb tip and pinky tip are less than 0.05 apart, puts no event,
\* leaves the last-punch table as it is and raises nothing.
C16_DegenerateNoEvent ==
    [][CallAppends
        /\ (SpanT(history'[CallHid]) = 0 \/ NarrowSpan(Head(pending).landmarks))
        => /\ event_queue' = event_queue
           /\ last_punch' = last_punch
           /\ raised' = None]_vars

\* Two fists of one label in the first frame (a window of two samples at one
\* instant), then a narrow fist 0.07 nearer 100 ms later: depth velocity
\* -0.7, no cooldown, three samples, and still nothing on the queue.
C16_Witness ==
    /\ last_call.valid /\ last_call.landmarks = TinyNear
    /\ ~last_call.emitted
    /\ history["left"] = <<<<100, 1000, 0>>, <<100, 2500, 0>>, <<200, 500, -700>>>>
    /\ DepthBelow(history["left"])
    /\ event_queue = <<>> /\ last_punch = <<>> /\ raised = None

-----------------------------------------------------------------------------
(* The worker and the control loop.                                        *)

WorkerTerminated == worker_pc \in {"done", "no_camera", "dead"}

\* Everything ever put on the queue, in put order.
AllEvents == consumed \o event_queue

\* The worker's initialisation failed: the camera did not open, or the
\* construction of the hand tracker raised.
InitFailed ==
    \/ worker_pc = "no_camera"
    \/ worker_pc = "dead" /\ raised = "HandTracker.__init__"

\* C14: the pose state written for a frame depends on that frame's smoothed
\* observations only: whenever the worker has written the cell for the same
\* smoothed observations twice, whatever poses, motion histories and
\* last-punch entries came before, it has written the same pose state.
C14_NoTemporalMemory ==
    \A i, j \in DOMAIN pose_log :
        pose_log[i].of = pose_log[j].of => pose_log[i].state = pose_log[j].state

\* No hand, then a guard with one punch of each hand, then no hand again:
\* the third write equals the first, though the cell held blocking and both
\* hands have a window and a last punch by then.
C14_Witness ==
    /\ Len(pose_log) = 3
    /\ pose_log[1].of = <<>> /\ pose_log[3].of = <<>>
    /\ pose_log[2].state.blocking
    /\ pose_log[3].state = pose_log[1].state
    /\ hand_state_ref = pose_log[3].state
    /\ ~hand_state_ref.blocking
    /\ history["left"] # <<>> /\ history["right"] # <<>>

\* C17 as stated: when the camera or the hand tracker fails to initialise,
\* exactly one event has been put, it is an error signal, and the worker has
\* ended.
C17_InitFailureOneError ==
    InitFailed =>
        /\ Len(AllEvents) = 1
        /\ AllEvents[1].type = "error"
        /\ WorkerTerminated

\* What is left of the worker's run once the flag is set: the steps to the
\* while test, the rest of the iteration in flight (the tracker reports at
\* most two hands), and the way out.
StopRank ==
    CASE worker_pc = "start" -> 8
      [] worker_pc = "tracker" -> 7
      [] worker_pc = "frame" -> 6
      [] worker_pc = "detect" -> 3 + Len(pending)
      [] worker_pc = "loop" -> 2
      [] worker_pc = "release" -> 1
      [] OTHER -> 0

\* C18: once the stop flag is set the worker ends: until it has ended it
\* always has a step to take, each of its steps brings it nearer to its end
\* and no step of the control loop takes it further away; with the flag set
\* it reads no further camera frame (the iteration in flight is its last);
\* once ended it stays ended and neither puts an event nor writes the pose
\* cell.
C18_Cancellation ==
    /\ [](stop_event /\ ~WorkerTerminated => ENABLED WorkerStep)
    /\ [][stop_event =>
            /\ StopRank' <= StopRank
            /\ (worker_pc' # worker_pc \/ pending' # pending => StopRank' < StopRank)
            /\ (StopRank' = 0 <=> WorkerTerminated')]_vars
    /\ [][stop_event => reads' = reads]_vars
    /\ [][WorkerTerminated =>
            /\ WorkerTerminated'
            /\ Len(consumed' \o event_queue') = Len(consumed \o event_queue)
            /\ hand_state_ref' = hand_state_ref
            /\ pose_log' = pose_log]_vars

\* The flag was set while a frame was in the detector; the worker finished
\* that iteration (its write is in the cell) and ended after one read.
C18_Witness ==
    /\ stop_event
    /\ worker_pc = "done"
    /\ reads = 1 /\ Len(pose_log) = 1
    /\ hand_state_ref = pose_log[1].state
    /\ hs = InitialHandState

\* The punch events of a sequence of events, in its order.
PunchesOf(q) == SelectSeq(q, LAMBDA e : e.type = "punch")

LatestPose ==
    IF pose_log = <<>> THEN InitialHandState
    ELSE ComputeHandState(pose_log[Len(pose_log)].of)

\* C20: the pose cell holds the initial value or the whole pose state of the
\* frame processed last, blocking and dodging both computed from that one
\* frame, and nothing of an earlier write; a read by the control loop always
\* has a step to take, returns what the cell holds at that moment and
\* leaves the cell as it was.
C20_LatestValueCell ==
    /\ [](hand_state_ref = LatestPose)
    /\ [](ctl_pc = "pose" => ENABLED CtlReadPose)
    /\ [][ctl_pc = "pose" /\ ctl_pc' # ctl_pc =>
            /\ hs' = hand_state_ref
            /\ hand_state_ref' = hand_state_ref
            /\ pose_log' = pose_log]_vars

\* Three writes of three different pose states, and the control loop's last
\* read returned the first of them, complete: it came between the first and
\* the second write, so the second write was overwritten by the third
\* without ever being read.
C20_Witness ==
    /\ Len(pose_log) = 3
    /\ pose_log[1].state.blocking /\ pose_log[1].state.dodging = None
    /\ ~pose_log[2].state.blocking /\ pose_log[2].state.dodging = "left"
    /\ ~pose_log[3].state.blocking /\ pose_log[3].state.dodging = None
    /\ hs = pose_log[1].state
    /\ hand_state_ref = pose_log[3].state
    /\ ctl_pc = "events"

-----------------------------------------------------------------------------
(* The throttle of the worker's loop.                                      *)

\* The clock reading t lies before the scheduled instant next.
BeforeInstant(t, next) == t * next.den < next.num

\* C21: a frame is handed to the tracker, the smoother and the detector only
\* when the clock read with it is not before next_frame_time; a frame read
\* before that instant leaves the smoothing state, the motion histories, the
\* last-punch table, the event queue, the pose cell and the frame in hand as
\* they were and the worker back at the while test; the timestamps of two
\* consecutive processed frames lie at least 1/45 s apart.
C21_Throttle ==
    /\ [][frames' = frames + 1 => ~BeforeInstant(now, next_frame_time)]_vars
    /\ [][(reads' = reads + 1 /\ worker_pc' # "release") =>
            IF BeforeInstant(now', next_frame_time)
            THEN /\ worker_pc' = "loop"
                 /\ UNCHANGED <<prev_smoothed, history, last_punch, event_queue,
                                hand_state_ref, hands_data, pending, frames, pose_log,
                                next_frame_time>>
            ELSE worker_pc' = "frame"]_vars
    /\ [](\A i \in DOMAIN pose_log : i > 1 =>
              /\ (pose_log[i].at - pose_log[i - 1].at) * 45 >= Unit.time
              /\ pose_log[i].at > pose_log[i - 1].at)

\* Three frames were read, at 10, 20 and 50 ms: the first and the third
\* were processed, the second, 10 ms after the first, was dropped.
C21_Witness ==
    /\ reads = 3 /\ frames = 2
    /\ Len(pose_log) = 2
    /\ pose_log[1].at = 10 /\ pose_log[2].at = 50
    /\ pose_log[1].of # <<>> /\ pose_log[2].of # <<>>
    /\ Len(history["left"]) = 4

-----------------------------------------------------------------------------
(* The fist classifier.                                                    *)

\* Squared planar distances of the classified hand, in coordinate units.
TipToWrist2(lm, f) == Dist2(At(lm, FingerTips[f]), At(lm, WRIST))
PipToWrist2(lm, f) == Dist2(At(lm, FingerPips[f]), At(lm, WRIST))
ThumbToPinky2(lm) == Dist2(At(lm, THUMB_TIP), At(lm, PINKY_TIP))
SpanLimit2 == ((5 * Unit.coord) \div 100) * ((5 * Unit.coord) \div 100)

\* The same hand with other depths and with the thumb's lower joints folded
\* onto the wrist (the thumb tip stays).
Reshaped(lm) ==
    [i \in DOMAIN lm |->
        IF i - 1 \in {1, THUMB_MCP, 3}
        THEN <<At(lm, WRIST)[1], At(lm, WRIST)[2], 100 * i>>
        ELSE <<lm[i][1], lm[i][2], lm[i][3] + 100 * i>>]

\* C22: _is_fist is false when the planar thumb-tip-to-pinky-tip distance
\* is below 0.05, and otherwise true exactly when each of the four fingers
\* has d(tip, wrist)^2 <= 1.3 * d(pip, wrist)^2 in the plane; other depths
\* and another curl of the thumb give the same answer.
C22_FistRule ==
    classified.called =>
        LET lm == classified.landmarks
        IN  /\ classified.result =
                   (/\ ThumbToPinky2(lm) >= SpanLimit2
                    /\ \A f \in 1..4 : 10 * TipToWrist2(lm, f) <= 13 * PipToWrist2(lm, f))
            /\ IsFist(Reshaped(lm)) = classified.result

\* A fist with the thumb tip exactly 0.05 from the pinky tip, the index tip
\* exactly on the circle d_tip = 1.3 * d_pip and the fingertips 0.5 deep in
\* front of the wrist.
C22_Witness ==
    /\ classified.called /\ classified.result
    /\ ThumbToPinky2(classified.landmarks) = SpanLimit2
    /\ 10 * TipToWrist2(classified.landmarks, 1) = 13 * PipToWrist2(classified.landmarks, 1)
    /\ PipToWrist2(classified.landmarks, 1) > 0
    /\ At(classified.landmarks, INDEX_TIP)[3] < At(classified.landmarks, WRIST)[3]

\* C23: wherever the wrist and the PIP joints are, with all four fingertips
\* on the wrist _is_fist is true whenever the thumb-to-pinky span is at
\* least 0.05, and with any fingertip farther from the wrist than sqrt(1.3)
\* times its PIP joint it is false.
C23_Monotone ==
    classified.called =>
        LET lm == classified.landmarks
        IN  /\ ((\A f \in 1..4 : TipToWrist2(lm, f) = 0) /\ ThumbToPinky2(lm) >= SpanLimit2)
                    => classified.result
            /\ (\E f \in 1..4 : 10 * TipToWrist2(lm, f) > 13 * PipToWrist2(lm, f))
                    => ~classified.result

\* All four fingertips on the wrist, PIP joints away from it, span 0.05:
\* classified as a fist.
C23_Witness ==
    /\ classified.called /\ classified.result
    /\ \A f \in 1..4 : TipToWrist2(classified.landmarks, f) = 0
    /\ \A f \in 1..4 : PipToWrist2(classified.landmarks, f) > 0
    /\ ThumbToPinky2(classified.landmarks) = SpanLimit2

\* One fingertip a unit outside its circle, the others on the wrist, the
\* thumb extended: not a fist.
C23_WitnessFar ==
    /\ classified.called /\ ~classified.result
    /\ 10 * TipToWrist2(classified.landmarks, 4) > 13 * PipToWrist2(classified.landmarks, 4)
    /\ \A f \in 1..3 : TipToWrist2(classified.landmarks, f) = 0
    /\ ThumbToPinky2(classified.landmarks) > SpanLimit2

-----------------------------------------------------------------------------
(* The detector's bookkeeping.  CallSample is the sample the call in hand   *)
(* takes of its observation.                                               *)

CallSample == <<now, HandSize(Head(pending).landmarks), AvgZ(Head(pending).landmarks)>>
Newest(h) == h[Len(h)]
LastSample == <<last_call.t, HandSize(last_call.landmarks), AvgZ(last_call.landmarks)>>

\* C24: every call of a processed frame appends the sample <<timestamp,
\* size, depth>> of its observation to the hand's window, whether or not
\* the hand is a fist, within its cooldown, or the window spans no time.
C24_AppendAlways ==
    [][pending # <<>> =>
        LET h == history[CallHid]
            g == history'[CallHid]
        IN  /\ g # <<>> /\ Newest(g) = CallSample
            /\ Len(g) = IF Len(h) < history_frames THEN Len(h) + 1 ELSE history_frames]_vars

\* An open hand, within the cooldown of an earlier punch, has its sample
\* as the newest of the window.
C24_Witness ==
    /\ last_call.valid
    /\ ~IsFist(last_call.landmarks)
    /\ last_call.t - last_call.last < cooldown_sec
    /\ ~last_call.emitted
    /\ Newest(history[LastHid]) = LastSample
    /\ Len(history[LastHid]) = 3

\* The second of two observations of one label in a first frame: the window
\* spans no time and holds both samples.
C24_WitnessSameInstant ==
    /\ last_call.valid /\ frames = 1
    /\ Len(history[LastHid]) = 2
    /\ SpanT(history[LastHid]) = 0
    /\ Newest(history[LastHid]) = LastSample
    /\ history[LastHid][1] # history[LastHid][2]

\* The velocities between the oldest and the newest sample of a window that
\* spans time, as fractions per second of the normalised frame.
OldestToNewestSize(h) == Frac((Newest(h)[2] - h[1][2]) * Unit.time, (Newest(h)[1] - h[1][1]) * Unit.coord)
OldestToNewestDepth(h) == Frac((Newest(h)[3] - h[1][3]) * Unit.time, (Newest(h)[1] - h[1][1]) * Unit.coord)

\* C25: the velocities a call classifies with are the differences between
\* the oldest sample of the window and the newest one, which is the call's
\* own, divided by their time difference: a fist out of its cooldown whose
\* window spans time puts an event exactly when that size velocity is above
\* 0.07 or that depth velocity below -0.35, and the event's strength is
\* min(1, |that size velocity| / 0.14).
C25_OldestToNewest ==
    [][pending # <<>> =>
        LET g == history'[CallHid]
        IN  (/\ IsFist(Head(pending).landmarks)
             /\ now - LastPunchGet(last_punch, CallHid) >= cooldown_sec
             /\ Len(g) >= 2
             /\ Newest(g)[1] - g[1][1] > 0)
            => /\ Newest(g) = CallSample
               /\ CallPuts <=>
                     (\/ FracLess(Frac(7, 100), OldestToNewestSize(g))
                      \/ FracLess(OldestToNewestDepth(g), Frac(-35, 100)))
               /\ CallPuts =>
                     event_queue'[Len(event_queue')].strength =
                        FracMin(Frac(1, 1),
                                FracDiv(FracAbs(OldestToNewestSize(g)), Frac(14, 100)))]_vars

\* A window of three samples whose two most recent ones are equal in size
\* and depth: the call put an event on the growth since the oldest sample.
C25_Witness ==
    /\ last_call.valid /\ last_call.emitted
    /\ Len(history[LastHid]) = 3
    /\ history[LastHid][2][2] = history[LastHid][3][2]
    /\ history[LastHid][2][3] = history[LastHid][3][3]
    /\ history[LastHid][1][2] < history[LastHid][3][2]
    /\ Newest(history[LastHid]) = LastSample

\* C26: a call whose window, with its own sample, holds fewer than two
\* samples puts no event; a call in the first processed frame that shows its
\* label (the window held nothing taken before this frame) puts no event,
\* whatever the landmarks.
C26_InsufficientData ==
    [][pending # <<>> =>
        /\ Len(history'[CallHid]) < 2
              => event_queue' = event_queue /\ last_punch' = last_punch
        /\ (\A i \in DOMAIN history[CallHid] : history[CallHid][i][1] = now)
              => event_queue' = event_queue /\ last_punch' = last_punch]_vars

\* The first frame showed the left label twice, a small fist and then a
\* big one: the second call found two samples, the size grown, and put
\* nothing.
C26_Witness ==
    /\ frames = 1 /\ last_call.valid
    /\ IsFist(last_call.landmarks)
    /\ Len(history[LastHid]) = 2
    /\ SpanSize(history[LastHid]) > 0
    /\ SpanT(history[LastHid]) = 0
    /\ ~last_call.emitted /\ event_queue = <<>> /\ last_punch = <<>>

\* The only sample of a fist close to the camera: nothing put.
C26_WitnessFirstSample ==
    /\ frames = 1 /\ last_call.valid
    /\ last_call.landmarks = FistNear
    /\ history[LastHid] = <<LastSample>>
    /\ ~last_call.emitted /\ event_queue = <<>>

\* The last-punch entry of a hand: <<t>>, or <<>> when it has none.
PunchedAt(lp, k) == IF k \in DOMAIN lp THEN <<lp[k]>> ELSE <<>>

\* C27: a call for one hand label leaves the window and the last-punch entry
\* of every other label as they were, and whether it puts an event is
\* decided by its own label's window and last-punch entry alone: a fist
\* moving toward the camera puts its event unless its own label punched less
\* than a cooldown ago, whatever the other hand has just done.
C27_PerHand ==
    [][pending # <<>> =>
        /\ \A k \in HandIds \ {CallHid} :
              /\ history'[k] = history[k]
              /\ PunchedAt(last_punch', k) = PunchedAt(last_punch, k)
        /\ LET g == history'[CallHid]
           IN  (/\ IsFist(Head(pending).landmarks)
                /\ Len(g) >= 2 /\ SpanT(g) > 0
                /\ (SizeAbove(g) \/ DepthBelow(g))
                /\ (CallHid \in DOMAIN last_punch => now - last_punch[CallHid] >= cooldown_sec))
               => CallPuts]_vars

\* Both hands punched in one frame, the left one first: the right hand's
\* event was put in the same instant.
C27_Witness ==
    /\ Len(emit_log) = 2
    /\ emit_log[1][1] = "left" /\ emit_log[2][1] = "right"
    /\ emit_log[1][2] = emit_log[2][2]
    /\ last_call.valid /\ last_call.emitted /\ LastHid = "right"
    /\ last_punch["left"] = last_punch["right"]

RECURSIVE EmittedAt(_, _)
EmittedAt(log, k) ==
    IF log = <<>> THEN <<>>
    ELSE (IF Head(log)[1] = k THEN <<Head(log)[2]>> ELSE <<>>) \o EmittedAt(Tail(log), k)

\* C29: the last-punch table changes in exactly the calls that put an event;
\* such a call puts one event, for its own label, and sets that label's
\* entry to the call's timestamp; no call puts more than one event; and in
\* every state a label has an entry exactly when an event was put for it,
\* the entry being the timestamp of the latest one.
C29_TableFollowsQueue ==
    /\ [][pending # <<>> =>
            /\ Len(event_queue') \in {Len(event_queue), Len(event_queue) + 1}
            /\ CallPuts <=> last_punch' # last_punch
            /\ CallPuts =>
                  /\ SubSeq(event_queue', 1, Len(event_queue)) = event_queue
                  /\ event_queue'[Len(event_queue')].type = "punch"
                  /\ event_queue'[Len(event_queue')].hand = CallHid
                  /\ PunchedAt(last_punch', CallHid) = <<now>>]_vars
    /\ [][pending = <<>> => event_queue' = event_queue /\ last_punch' = last_punch]_vars
    /\ [](\A k \in HandIds :
            LET at == EmittedAt(emit_log, k)
            IN  PunchedAt(last_punch, k) = IF at = <<>> THEN <<>> ELSE <<at[Len(at)]>>)

\* Two events of the left hand, a cooldown apart: the entry is the second
\* one's timestamp.
C29_Witness ==
    /\ Len(EmittedAt(emit_log, "left")) = 2
    /\ last_punch["left"] = EmittedAt(emit_log, "left")[2]
    /\ last_punch["left"] > EmittedAt(emit_log, "left")[1]
    /\ Len(event_queue) = 2

-----------------------------------------------------------------------------
(* The opponent.  In a step of OpponentSpec, opp_call' tells which call it *)
(* was and what the call returned.                                         *)

\* C30: take_damage on an opponent that is vulnerable with its
\* invulnerability timer at 0 returns True, takes the amount off hp (not
\* below 0) and starts the hit and the invulnerability timer; any other
\* take_damage returns False and changes nothing; hp changes in no other
\* way, lies in [0, max_hp] throughout, and a hit lands only when update
\* calls have run off the whole invulnerability time since the hit before.
C30_TakeDamage ==
    /\ [][opp_call'.op = "take_damage" =>
            IF opponent.state = "vulnerable" /\ opponent.invuln_timer = 0
            THEN /\ opp_call'.took
                 /\ opponent' = [opponent EXCEPT
                                    !.hp = IF opponent.hp < PunchDamage THEN 0
                                           ELSE opponent.hp - PunchDamage,
                                    !.hit_timer = opponent.hit_anim_duration,
                                    !.invuln_timer = opponent.hit_anim_duration]
                 /\ opponent'.invuln_timer > 0
            ELSE ~opp_call'.took /\ opponent' = opponent]_vars
    /\ [][opponent'.hp # opponent.hp =>
            /\ opp_call'.op = "take_damage" /\ opp_call'.took
            /\ opponent'.hp < opponent.hp]_vars
    /\ [](/\ 0 <= opponent.hp /\ opponent.hp <= opponent.max_hp
          /\ opponent.invuln_timer >= 0 /\ opponent.hit_timer >= 0)
    /\ [][(opp_call'.op = "take_damage" /\ opp_call'.took)
            => opp_call.since >= opponent.hit_anim_duration]_vars

\* A second hit has just landed in the first vulnerable phase: hp is 4 and
\* both timers run anew.
C30_Witness ==
    /\ opp_call.op = "take_damage" /\ opp_call.took
    /\ opponent.hp = OPPONENT_MAX_HP - 2
    /\ opponent.state = "vulnerable"
    /\ opponent.combo_index = 1
    /\ opponent.invuln_timer = opponent.hit_anim_duration
    /\ opponent.hit_timer = opponent.hit_anim_duration

\* A hit on an opponent with no hp left: hp stays 0.
C30_WitnessFloor ==
    /\ opp_call.op = "take_damage" /\ opp_call.took
    /\ opponent.hp = 0


\* What the tick in progress has made of the block: player.blocking is the
\* value lines 145-157 gave it once the tick stands at its step.
BlockSet == game_pc = "step"
CoolingDown == since_block # <<>> /\ since_block[1] < BLOCK_COOLDOWN_AFTER_HIT

\* C31: the block that a tick of the control loop gives the player is true
\* only if the game state is FIGHTING and the block cooldown timer is 0; a
\* blocked attack sets the timer to 0.7 s, Player.update counts it down by
\* the ticks' lengths to 0, and until it is there every following tick sets
\* player.blocking to false, whatever the CV flag, the B key and the sustain
\* timer are.
C31_BlockCooldown ==
    /\ BlockSet /\ player.blocking =>
          game.game_state = "FIGHTING" /\ player.block_cooldown_timer = 0
    /\ since_block # <<>> =>
          player.block_cooldown_timer = BLOCK_COOLDOWN_AFTER_HIT - since_block[1]
    /\ BlockSet /\ CoolingDown => ~player.blocking

\* A tick after a blocked attack, part of the cooldown counted down: the CV
\* flag is up, the B key is held, the sustain timer is running, and the
\* block is off.
C31_Witness ==
    /\ BlockSet /\ CoolingDown /\ since_block[1] > 0
    /\ game.game_state = "FIGHTING"
    /\ tick.bound /\ tick.cv_block /\ tick.block_key_held
    /\ game.block_sustain_timer > 0
    /\ ~player.blocking

\* The same with nothing but the sustain timer asking for the block.
C31_WitnessSustained ==
    /\ BlockSet /\ CoolingDown
    /\ tick.bound /\ ~tick.cv_block /\ ~tick.block_key_held
    /\ game.block_sustain_timer > 0
    /\ ~player.blocking

\* The cooldown has run out and the block is on again.
C31_WitnessRecovered ==
    /\ BlockSet
    /\ since_block = <<BLOCK_COOLDOWN_AFTER_HIT>>
    /\ player.blocking

\* The round ended on the tick that blocked an attack: the timer stands at
\* 0.7 s outside a fight.
C31_WitnessRoundEnd ==
    /\ BlockSet
    /\ game.game_state = "ROUND_END"
    /\ player.block_cooldown_timer > 0
    /\ ~player.blocking

====
